---- MODULE Spec2Model ----
(***************************************************************************)
(* cfy_manager: the lifecycle orchestrator of cloudify-manager-install.     *)
(* The state is what survives a process (the two marker files and the user *)
(* config file) plus the record of the command that is running or has just *)
(* run.  Every command of main.py is one action; a command's own steps are *)
(* operators over a run record `st`, composed in the order of the code, and *)
(* each of them is the identity once st.error is set (a raised exception   *)
(* propagates to the top level).                                           *)
(***************************************************************************)
EXTENDS Integers, Sequences, FiniteSets, TLC

VARIABLES
    installed,      \* INITIAL_INSTALL_FILE exists
    configured,     \* INITIAL_CONFIGURE_FILE exists
    userConfig,     \* the content of the user config file
    run,            \* the record of the current process ("idle": none)
    lastInstall     \* history: the most recent `install` run

vars == <<installed, configured, userConfig, run, lastInstall>>

\* ------------------------------------------------------------------ bounds
\* longest services_to_install list of the orchestrator's configs
MaxServices == 2
\* longest services_to_install list handed to the resolver alone
MaxResolveLen == 3
\* the latest lifecycle call (by ordinal in the run) the environment breaks
MaxFaultAt == 3
\* how many things are wrong at once on a host handed to validate() alone
MaxBroken == 2
\* how many times one process calls validate()
MaxValidateCalls == 2

\* ---------------------------------------------------------------- registry
DATABASE_SERVICE == "database_service"
QUEUE_SERVICE == "queue_service"
MANAGER_SERVICE == "manager_service"

SERVICE_INSTALLATION_ORDER ==
    <<DATABASE_SERVICE, QUEUE_SERVICE, MANAGER_SERVICE>>

SERVICE_COMPONENTS ==
    (DATABASE_SERVICE :> <<"postgresql_server">>) @@
    (QUEUE_SERVICE :> <<"rabbitmq">>) @@
    (MANAGER_SERVICE :> <<"manager", "restservice">>)

Range(s) == {s[i] : i \in 1..Len(s)}

Services == Range(SERVICE_INSTALLATION_ORDER)

\* a service name no table knows
UNKNOWN_SERVICE == "bogus_service"

RECURSIVE Flatten(_)
Flatten(ss) ==
    IF ss = <<>> THEN <<>> ELSE Head(ss) \o Flatten(Tail(ss))

Reverse(s) == [i \in 1..Len(s) |-> s[Len(s) + 1 - i]]

\* list.index: the first position of x (ValueError when absent, see
\* ResolveRaises)
IndexOf(seq, x) ==
    CHOOSE i \in 1..Len(seq) :
        seq[i] = x /\ \A j \in 1..(i - 1) : seq[j] # x

\* sorted(seq, key=order.index): a stable ascending sort by position in
\* `order`, computed bucket by bucket
RECURSIVE SortBuckets(_, _, _)
SortBuckets(seq, order, k) ==
    IF k > Len(order) THEN <<>>
    ELSE SelectSeq(seq, LAMBDA x : IndexOf(order, x) = k)
         \o SortBuckets(seq, order, k + 1)

\* faulty variant: the services are taken in the order the config lists them
UnsortedByOrder(seq, order) == seq

SortedByOrder(seq, order) == SortBuckets(seq, order, 1)

\* _get_components_list: the services ordered by installation order, then
\* each service's components appended in turn
GetComponentsList(services) ==
    LET ordered_services == SortedByOrder(services, SERVICE_INSTALLATION_ORDER)
    IN  Flatten([i \in 1..Len(ordered_services) |->
                    SERVICE_COMPONENTS[ordered_services[i]]])

\* SERVICE_INSTALLATION_ORDER.index raises ValueError on a name it lacks
ResolveRaises(services) ==
    \E i \in 1..Len(services) : services[i] \notin Services

\* --------------------------------------------------------------- run state
\* What the environment does to one process: at most one thing goes wrong
\* (the first exception ends the process, so a second fault is never seen).
\*   config_unreadable / config_readonly: the user config file's mode
\*   config_missing: there is no user config file (the loaded config is
\*           then what the defaults give)
\*   inputs: private_ip is missing from the loaded config
\*   deps:   the at-th component's validate_dependencies() raises
\*   soft:   the host's Python is not the expected version
\*   call:   the at-th lifecycle call of the run raises
\*   marker: the at-th creation or removal of a marker file in the run
\*           raises (a run creates or removes at most two)
NoFault == [kind |-> "none", at |-> 0]

Faults ==
    {[kind |-> k, at |-> 0] :
        k \in {"none", "config_unreadable", "config_readonly",
               "config_missing", "inputs", "soft"}}
    \cup {[kind |-> k, at |-> n] : k \in {"deps", "call"}, n \in 1..MaxFaultAt}
    \cup {[kind |-> "marker", at |-> n] : n \in 1..2}

\* the command-line flags (given or not); a command reads only its own
NoFlags ==
    [force |-> FALSE, only_install |-> FALSE, clean_db |-> FALSE,
     admin_password |-> FALSE, join_cluster |-> FALSE,
     database_ip |-> FALSE, postgres_password |-> FALSE]

\* config[POSTGRESQL_SERVER] and config[POSTGRESQL_CLIENT] as validate()
\* reads them; a password is "" (not set), "config" (set in the file) or
\* "flag" (set from the command line), a client host is "localhost",
\* "remote" (another address set in the file) or "database_ip" (the flag)
PostgresqlServer(remote, password, ssl) ==
    [enable_remote_connections |-> remote, postgres_password |-> password,
     ssl_enabled |-> ssl]

PostgresqlClient(host, password, ssl) ==
    [host |-> host, postgres_password |-> password, ssl_enabled |-> ssl]

\* a config file as shipped: nothing derived by a run yet, and database
\* settings that pass validation for any choice of services
UserConfig(services, skip) ==
    [services_to_install |-> services, skip |-> skip,
     skip_validations |-> FALSE, clean_db |-> FALSE,
     admin_password |-> "config",
     postgresql_server |-> PostgresqlServer(TRUE, "config", TRUE),
     postgresql_client |-> PostgresqlClient("localhost", "config", TRUE),
     active_manager_ip |-> FALSE,
     unconfigured_install |-> "unset"]

\* What validate() finds on the host and in the parts of the config that
\* nothing else in the model reads. `broken` names the conditions that do
\* not hold, `deps` the positions of the components whose
\* validate_dependencies() raises.
\*   private_ip, public_ip: the input is not set in config[MANAGER]
\*   private_ip_interface:  private_ip is an address of no local interface
\*   python_version, memory, disk_space, distro, distro_version, openssl,
\*   sudo:                  the host does not meet the requirement
\*   postgresql_server_certs: ssl_inputs lacks the server cert, key or CA
\*   postgresql_client_certs: ssl_inputs lacks the client cert or key
\*   cert_inputs:           a cert/key/CA of ssl_inputs fails its check
\*   active_manager_port:   port 80 of cluster.active_manager_ip is closed
INPUT_CONDITIONS == {"private_ip", "public_ip"}

ACCUMULATED_CONDITIONS ==
    {"private_ip_interface", "python_version", "memory", "disk_space",
     "distro", "distro_version", "openssl", "sudo"}

RAISED_CONDITIONS ==
    {"postgresql_server_certs", "postgresql_client_certs", "cert_inputs"}

CONDITIONS ==
    INPUT_CONDITIONS \cup ACCUMULATED_CONDITIONS \cup RAISED_CONDITIONS
        \cup {"active_manager_port"}

SoundHost == [broken |-> {}, deps |-> {}]

\* the host of a run that meets the fault
HostOf(fault) ==
    [broken |-> CASE fault.kind = "inputs" -> {"private_ip"}
                  [] fault.kind = "soft" -> {"python_version"}
                  [] OTHER -> {},
     deps |-> IF fault.kind = "deps" THEN {fault.at} ELSE {}]

\* no process is running
Idle ==
    [cmd |-> "idle", flags |-> NoFlags, fault |-> NoFault,
     config |-> UserConfig(<<>>, {}), file |-> UserConfig(<<>>, {}),
     installed |-> FALSE, configured |-> FALSE,
     installed0 |-> FALSE, configured0 |-> FALSE,
     components |-> <<>>, log |-> <<>>, ncalls |-> 0,
     host |-> SoundHost, errors |-> <<>>, errors0 |-> <<>>, nvalidate |-> 0,
     args |-> [skip_validations |-> FALSE, only_install |-> FALSE],
     error |-> "none", fix |-> "none", message |-> <<>>]

\* the process as it starts: empty module-level lists `components`
\* (main.py) and `_errors` (validations.py)
NewProcess(cmd, flags, fault, host, cfg, inst, conf) ==
    [cmd |-> cmd, flags |-> flags, fault |-> fault,
     config |-> cfg, file |-> cfg,
     installed |-> inst, configured |-> conf,
     installed0 |-> inst, configured0 |-> conf,
     components |-> <<>>, log |-> <<>>, ncalls |-> 0,
     host |-> host, errors |-> <<>>, errors0 |-> <<>>, nvalidate |-> 0,
     args |-> [skip_validations |-> FALSE, only_install |-> FALSE],
     error |-> "none", fix |-> "none", message |-> <<>>]

NewRun(cmd, flags, fault) ==
    NewProcess(cmd, flags, fault, HostOf(fault),
               userConfig, installed, configured)

Failed(st) == st.error # "none"

\* raise kind(...): `fix` is the command the message tells the user to run
\* (or the flag it asks for)
Raise(st, kind, fix) == [st EXCEPT !.error = kind, !.fix = fix]

\* an observable step that names no component
Event(st, op) == [st EXCEPT !.log = Append(@, [op |-> op, c |-> 0])]

LIFECYCLE == {"install", "configure", "start", "stop", "remove"}

\* component.op() on the i-th object of the components list
Call(st, op, i) ==
    IF Failed(st) THEN st
    ELSE LET st1 == [st EXCEPT !.log = Append(@, [op |-> op, c |-> i]),
                               !.ncalls = @ + 1]
         IN  IF st.fault.kind = "call" /\ st1.ncalls = st.fault.at
             THEN Raise(st1, "ComponentError", "none")
             ELSE st1

\* faulty variant: a config file that cannot be written is never refused
ValidateConfigAccessReadOnly(st, write_required) ==
    IF Failed(st) THEN st
    ELSE IF st.fault.kind = "config_unreadable"
         THEN Raise(st, "ValidationError", "config_access")
         ELSE st

\* validations.validate_config_access: asks for nothing when there is no
\* file
ValidateConfigAccess(st, write_required) ==
    IF Failed(st) THEN st
    ELSE IF \/ st.fault.kind = "config_unreadable"
            \/ write_required /\ st.fault.kind = "config_readonly"
         THEN Raise(st, "ValidationError", "config_access")
         ELSE st

\* config.load_config
LoadConfig(st) ==
    IF Failed(st) THEN st ELSE Event([st EXCEPT !.config = st.file], "load_config")

IsManagerInstalled(st) == st.installed

IsManagerConfigured(st) == st.configured

\* faulty variant: clean_db is the flag alone, whatever the configured marker
PopulateCleanDbFromFlag(st, f) ==
    IF Failed(st) THEN st
    ELSE
    LET clean == f.clean_db
        st1 == [st EXCEPT !.config.clean_db = clean]
    IN  IF f.admin_password
        THEN IF clean
             THEN LET st2 == [st1 EXCEPT !.config.admin_password = "flag"]
                  IN  IF f.database_ip /\ f.postgres_password
                      THEN [st2 EXCEPT
                               !.config.postgresql_client =
                                   PostgresqlClient("database_ip", "flag",
                                                    TRUE),
                               !.config.services_to_install =
                                   <<QUEUE_SERVICE, MANAGER_SERVICE>>]
                      ELSE IF f.database_ip \/ f.postgres_password
                           THEN Raise(st2, "BootstrapError", "flags")
                           ELSE st2
             ELSE Raise(st1, "BootstrapError", "clean_db")
        ELSE IF f.join_cluster \/ f.database_ip
             THEN Raise(st1, "BootstrapError", "flags")
             ELSE st1

\* faulty variant: --admin-password is taken whether or not the database is
\* going to be recreated
PopulateAdminPasswordAlways(st, f) ==
    IF Failed(st) THEN st
    ELSE
    LET clean == f.clean_db \/ ~IsManagerConfigured(st)
        st1 == [st EXCEPT !.config.clean_db = clean]
    IN  IF f.admin_password
        THEN LET st2 == [st1 EXCEPT !.config.admin_password = "flag"]
             IN  IF f.database_ip /\ f.postgres_password
                 THEN [st2 EXCEPT
                          !.config.postgresql_client =
                              PostgresqlClient("database_ip", "flag", TRUE),
                          !.config.services_to_install =
                              <<QUEUE_SERVICE, MANAGER_SERVICE>>]
                 ELSE IF f.database_ip \/ f.postgres_password
                      THEN Raise(st2, "BootstrapError", "flags")
                      ELSE st2
        ELSE IF f.join_cluster \/ f.database_ip
             THEN Raise(st1, "BootstrapError", "flags")
             ELSE st1

\* _populate_and_validate_config_values
PopulateAndValidateConfigValues(st, f) ==
    IF Failed(st) THEN st
    ELSE
    LET clean == f.clean_db \/ ~IsManagerConfigured(st)
        st1 == [st EXCEPT !.config.clean_db = clean]
    IN  IF f.admin_password
        THEN IF clean
             THEN LET st2 == [st1 EXCEPT !.config.admin_password = "flag"]
                  IN  IF f.database_ip /\ f.postgres_password
                      THEN [st2 EXCEPT
                               !.config.postgresql_client =
                                   PostgresqlClient("database_ip", "flag",
                                                    TRUE),
                               !.config.services_to_install =
                                   <<QUEUE_SERVICE, MANAGER_SERVICE>>]
                      ELSE IF f.database_ip \/ f.postgres_password
                           THEN Raise(st2, "BootstrapError", "flags")
                           ELSE st2
             ELSE Raise(st1, "BootstrapError", "clean_db")
        ELSE IF f.join_cluster \/ f.database_ip
             THEN Raise(st1, "BootstrapError", "flags")
             ELSE st1

\* _create_component_objects: appends to the module-level components list
CreateComponentObjects(st) ==
    IF Failed(st) THEN st
    ELSE IF ResolveRaises(st.config.services_to_install)
         THEN Raise(st, "ValueError", "none")
         ELSE LET names == GetComponentsList(st.config.services_to_install)
              IN  [st EXCEPT !.components = @ \o
                      [i \in 1..Len(names) |->
                          [name |-> names[i],
                           skip_installation |-> names[i] \in st.config.skip]]]

\* _prepare_execution: `f` holds the arguments the command passes on
\* (private_ip .. postgres_password); what it does not pass is not given
PrepareExecution(st, f, config_write_required, only_install) ==
    LET s1 == ValidateConfigAccess(st, config_write_required)
        s2 == LoadConfig(s1)
        s3 == IF only_install THEN s2
              ELSE PopulateAndValidateConfigValues(s2, f)
    IN  CreateComponentObjects(s3)

\* --------------------------------------------------------------- validate
\* raise ValidationError(...) inside validations.py: `message` lists the
\* problems the message names
RaiseValidation(st, fix, problems) ==
    [Raise(st, "ValidationError", fix) EXCEPT !.message = problems]

\* _errors.append(...): the module-level list, never emptied by the module
Accumulate(st, problem) == [st EXCEPT !.errors = Append(@, problem)]

Broken(st, condition) == condition \in st.host.broken

\* the shape shared by the checks that record their finding in _errors
AccumulatingCheck(st, op, condition) ==
    IF Failed(st) THEN st
    ELSE LET st1 == Event(st, op)
         IN  IF Broken(st, condition) THEN Accumulate(st1, condition) ELSE st1

\* the shape shared by the checks that raise their finding
RaisingCheck(st, op, found) ==
    IF Failed(st) THEN st
    ELSE LET st1 == Event(st, op)
         IN  IF found THEN RaiseValidation(st1, op, <<op>>) ELSE st1

\* validations._validate_inputs: private_ip first, then public_ip
ValidateInputs(st) ==
    IF Failed(st) THEN st
    ELSE LET st1 == Event(st, "_validate_inputs")
         IN  IF Broken(st, "private_ip")
             THEN RaiseValidation(st1, "inputs", <<"private_ip">>)
             ELSE IF Broken(st, "public_ip")
                  THEN RaiseValidation(st1, "inputs", <<"public_ip">>)
                  ELSE st1

\* validations._validate_dependencies: every component of the list, from
\* the i-th on
RECURSIVE ValidateDependencies(_, _)
ValidateDependencies(st, i) ==
    IF Failed(st) \/ i > Len(st.components) THEN st
    ELSE LET st1 == [st EXCEPT !.log =
                        Append(@, [op |-> "validate_dependencies", c |-> i])]
         IN  IF i \in st.host.deps
             THEN RaiseValidation(st1, "dependencies", <<"dependencies">>)
             ELSE ValidateDependencies(st1, i + 1)

\* validations._validate_ip: only the private IP is looked for on the local
\* interfaces
ValidateIp(st, check_local_interfaces) ==
    IF Failed(st) THEN st
    ELSE LET st1 == Event(st, "_validate_ip")
         IN  IF check_local_interfaces /\ Broken(st, "private_ip_interface")
             THEN Accumulate(st1, "private_ip_interface")
             ELSE st1

\* validations._validate_active_manager_access: the answer of is_port_open
\* is dropped
ValidateActiveManagerAccess(st) ==
    IF Failed(st) THEN st ELSE Event(st, "_validate_active_manager_access")

\* validations._validate_python_version
ValidatePythonVersion(st) ==
    AccumulatingCheck(st, "_validate_python_version", "python_version")

\* validations._validate_sufficient_memory
ValidateSufficientMemory(st) ==
    AccumulatingCheck(st, "_validate_sufficient_memory", "memory")

\* validations._services_coexistence_assertion
ServicesCoexistenceAssertion(st, service_in, service_not_in) ==
    /\ service_in \in Range(st.config.services_to_install)
    /\ service_not_in \notin Range(st.config.services_to_install)

\* the condition under which _validate_postgres_inputs raises
PostgresInputsRejected(st) ==
    LET server == st.config.postgresql_server
        client == st.config.postgresql_client
    IN  \/ /\ ServicesCoexistenceAssertion(st, DATABASE_SERVICE,
                                           MANAGER_SERVICE)
           /\ \/ /\ server.enable_remote_connections
                 /\ server.postgres_password = ""
              \/ /\ ~server.enable_remote_connections
                 /\ server.postgres_password # ""
        \/ /\ ServicesCoexistenceAssertion(st, MANAGER_SERVICE,
                                           DATABASE_SERVICE)
           /\ client.host = "localhost"
           /\ client.postgres_password = ""

\* validations._validate_postgres_inputs
ValidatePostgresInputs(st) ==
    RaisingCheck(st, "_validate_postgres_inputs", PostgresInputsRejected(st))

\* the condition under which _validate_external_postgres_ssl_enabled raises
ExternalPostgresSslDisabled(st) ==
    \/ /\ ~st.config.postgresql_server.ssl_enabled
       /\ ServicesCoexistenceAssertion(st, DATABASE_SERVICE, MANAGER_SERVICE)
    \/ /\ ~st.config.postgresql_client.ssl_enabled
       /\ ServicesCoexistenceAssertion(st, MANAGER_SERVICE, DATABASE_SERVICE)

\* validations._validate_external_postgres_ssl_enabled
ValidateExternalPostgresSslEnabled(st) ==
    RaisingCheck(st, "_validate_external_postgres_ssl_enabled",
                 ExternalPostgresSslDisabled(st))

\* the condition under which _validate_postgres_ssl_certificates_provided
\* raises: the client's pair is looked at only when the server's files are
\* all there
PostgresSslCertificatesMissing(st) ==
    IF Broken(st, "postgresql_server_certs")
    THEN st.config.postgresql_server.ssl_enabled
    ELSE /\ Broken(st, "postgresql_client_certs")
         /\ st.config.postgresql_client.ssl_enabled

\* validations._validate_postgres_ssl_certificates_provided
ValidatePostgresSslCertificatesProvided(st) ==
    RaisingCheck(st, "_validate_postgres_ssl_certificates_provided",
                 PostgresSslCertificatesMissing(st))

\* validations._validate_cert_inputs
ValidateCertInputs(st) ==
    RaisingCheck(st, "_validate_cert_inputs", Broken(st, "cert_inputs"))

\* validations._validate_supported_distros: up to two findings
ValidateSupportedDistros(st) ==
    IF Failed(st) THEN st
    ELSE LET s1 == Event(st, "_validate_supported_distros")
             s2 == IF Broken(st, "distro") THEN Accumulate(s1, "distro")
                   ELSE s1
         IN  IF Broken(st, "distro_version")
             THEN Accumulate(s2, "distro_version") ELSE s2

\* validations._validate_openssl_version
ValidateOpensslVersion(st) ==
    AccumulatingCheck(st, "_validate_openssl_version", "openssl")

\* validations._validate_user_has_sudo_permissions
ValidateUserHasSudoPermissions(st) ==
    AccumulatingCheck(st, "_validate_user_has_sudo_permissions", "sudo")

\* validations._validate_sufficient_disk_space
ValidateSufficientDiskSpace(st) ==
    AccumulatingCheck(st, "_validate_sufficient_disk_space", "disk_space")

\* the checks of validate() under its second `if not only_install:`
RuntimeValidations(st) ==
    LET s1 == ValidateIp(st, TRUE)
        s2 == ValidateIp(s1, FALSE)
        s3 == IF st.config.postgresql_client.host # "localhost"
              THEN ValidateIp(s2, FALSE) ELSE s2
        s4 == IF st.config.active_manager_ip
              THEN ValidateActiveManagerAccess(s3) ELSE s3
        s5 == ValidateSufficientMemory(ValidatePythonVersion(s4))
        s6 == ValidateExternalPostgresSslEnabled(ValidatePostgresInputs(s5))
    IN  ValidateCertInputs(ValidatePostgresSslCertificatesProvided(s6))

\* the checks of validate() that run with and without only_install
HostValidations(st) ==
    ValidateSufficientDiskSpace(
        ValidateUserHasSudoPermissions(
            ValidateOpensslVersion(ValidateSupportedDistros(st))))

\* if _errors: raise ValidationError('Validation error(s):' + all of them)
RaiseAccumulated(st) ==
    IF Failed(st) \/ st.errors = <<>> THEN st
    ELSE RaiseValidation(st, "aggregate", st.errors)

\* validate() entered: one more invocation in this process; `args` and
\* `errors0` keep its arguments and the _errors it found on entry
EnterValidate(st, skip_validations, only_install) ==
    Event([st EXCEPT !.nvalidate = @ + 1, !.errors0 = st.errors,
                     !.args = [skip_validations |-> skip_validations,
                               only_install |-> only_install]],
          "validate")

\* validate() returned normally
LeaveValidate(st) == IF Failed(st) THEN st ELSE Event(st, "validate_ok")

\* faulty variant: a missing input is recorded in _errors like a soft finding
ValidateAccumulatesInputs(st, skip_validations, only_install) ==
    IF Failed(st) THEN st
    ELSE
    LET s0 == EnterValidate(st, skip_validations, only_install)
        s1 == IF only_install THEN s0
              ELSE AccumulatingCheck(
                       AccumulatingCheck(s0, "_validate_inputs", "private_ip"),
                       "_validate_inputs", "public_ip")
        s2 == ValidateDependencies(s1, 1)
        s3 == IF st.config.skip_validations \/ skip_validations THEN s2
              ELSE RaiseAccumulated(HostValidations(
                       IF only_install THEN s2 ELSE RuntimeValidations(s2)))
    IN  LeaveValidate(s3)

\* faulty variant: the skip_validations argument is not looked at
ValidateSkipArgumentIgnored(st, skip_validations, only_install) ==
    IF Failed(st) THEN st
    ELSE
    LET s0 == EnterValidate(st, skip_validations, only_install)
        s1 == IF only_install THEN s0 ELSE ValidateInputs(s0)
        s2 == ValidateDependencies(s1, 1)
        s3 == IF st.config.skip_validations THEN s2
              ELSE RaiseAccumulated(HostValidations(
                       IF only_install THEN s2 ELSE RuntimeValidations(s2)))
    IN  LeaveValidate(s3)

\* validations.validate
Validate(st, skip_validations, only_install) ==
    IF Failed(st) THEN st
    ELSE
    LET s0 == EnterValidate(st, skip_validations, only_install)
        s1 == IF only_install THEN s0 ELSE ValidateInputs(s0)
        s2 == ValidateDependencies(s1, 1)
        s3 == IF st.config.skip_validations \/ skip_validations THEN s2
              ELSE RaiseAccumulated(HostValidations(
                       IF only_install THEN s2 ELSE RuntimeValidations(s2)))
    IN  LeaveValidate(s3)

\* --------------------------------------------------------------- commands
\* faulty variant: the loop does not look at skip_installation
RECURSIVE ForwardLoopNoSkip(_, _, _)
ForwardLoopNoSkip(st, op, i) ==
    IF Failed(st) \/ i > Len(st.components) THEN st
    ELSE ForwardLoopNoSkip(Call(st, op, i), op, i + 1)

\* for component in components: if not component.skip_installation:
\*     component.op()          (from the i-th component on)
RECURSIVE ForwardLoop(_, _, _)
ForwardLoop(st, op, i) ==
    IF Failed(st) \/ i > Len(st.components) THEN st
    ELSE ForwardLoop(
            IF st.components[i].skip_installation THEN st ELSE Call(st, op, i),
            op, i + 1)

MARKER_OPS ==
    {"touch_installed", "touch_configured", "rm_installed", "rm_configured"}

\* touch / _remove of a marker file: the file helper raises when the
\* environment says so, and the file is then as it was
MarkerOp(st, op) ==
    IF /\ st.fault.kind = "marker"
       /\ st.fault.at =
             Len(SelectSeq(st.log, LAMBDA e : e.op \in MARKER_OPS)) + 1
    THEN Raise(st, "FileError", "none")
    ELSE Event(IF op = "touch_installed"
                   THEN [st EXCEPT !.installed = TRUE]
               ELSE IF op = "touch_configured"
                   THEN [st EXCEPT !.configured = TRUE]
               ELSE IF op = "rm_installed"
                   THEN [st EXCEPT !.installed = FALSE]
               ELSE [st EXCEPT !.configured = FALSE], op)

\* _create_initial_install_file
CreateInitialInstallFile(st) ==
    IF IsManagerInstalled(st) THEN st
    ELSE MarkerOp(st, "touch_installed")

\* _create_initial_configure_file
CreateInitialConfigureFile(st) ==
    IF IsManagerConfigured(st) THEN st
    ELSE MarkerOp(st, "touch_configured")

\* config.dump_config
DumpConfig(st) == Event([st EXCEPT !.file = st.config], "dump_config")

\* faulty variant: the configured marker is created whatever only_install says
FinishConfigurationAlwaysConfigured(st, only_install) ==
    IF Failed(st) THEN st
    ELSE DumpConfig(CreateInitialConfigureFile(CreateInitialInstallFile(st)))

\* faulty variant: the closing steps run in a `finally`, also after a raise
FinishConfigurationFinally(st, only_install) ==
    LET s1 == CreateInitialInstallFile(st)
        s2 == IF only_install THEN s1 ELSE CreateInitialConfigureFile(s1)
    IN  DumpConfig(s2)

\* _finish_configuration
FinishConfiguration(st, only_install) ==
    IF Failed(st) THEN st
    ELSE LET s1 == CreateInitialInstallFile(st)
             s2 == IF Failed(s1) \/ only_install THEN s1
                   ELSE CreateInitialConfigureFile(s1)
         IN  IF Failed(s2) THEN s2 ELSE DumpConfig(s2)

\* faulty variant: the force flag is not looked at
ValidateForceIgnored(st, force) == st

\* _validate_force
ValidateForce(st, force) ==
    IF Failed(st) \/ force THEN st ELSE Raise(st, "BootstrapError", "force")

\* faulty variant: the configured marker is looked for first
ValidateManagerPreparedConfiguredFirst(st, cmd) ==
    IF Failed(st) THEN st
    ELSE IF ~IsManagerConfigured(st) /\ cmd # "configure"
         THEN Raise(st, "BootstrapError", "configure")
         ELSE IF ~IsManagerInstalled(st)
              THEN Raise(st, "BootstrapError", "install")
              ELSE st

\* _validate_manager_prepared
ValidateManagerPrepared(st, cmd) ==
    IF Failed(st) THEN st
    ELSE IF ~IsManagerInstalled(st)
         THEN Raise(st, "BootstrapError", "install")
         ELSE IF ~IsManagerConfigured(st) /\ cmd # "configure"
              THEN Raise(st, "BootstrapError", "configure")
              ELSE st

\* config[UNCONFIGURED_INSTALL] = v
SetUnconfiguredInstall(st, v) ==
    IF Failed(st) THEN st
    ELSE [st EXCEPT !.config.unconfigured_install =
                        IF v THEN "true" ELSE "false"]

\* validate_command
ValidateCommand(st, f) ==
    Validate(PrepareExecution(st, f, FALSE, FALSE), FALSE, FALSE)

\* faulty variant: one loop that installs and configures each component in turn
RECURSIVE InterleavedLoop(_, _, _)
InterleavedLoop(st, only_install, i) ==
    IF Failed(st) \/ i > Len(st.components) THEN st
    ELSE IF st.components[i].skip_installation
         THEN InterleavedLoop(st, only_install, i + 1)
         ELSE LET s1 == Call(st, "install", i)
                  s2 == IF only_install THEN s1 ELSE Call(s1, "configure", i)
              IN  InterleavedLoop(s2, only_install, i + 1)

InstallInterleaved(st, f) ==
    LET s1 == PrepareExecution(st, f, TRUE, f.only_install)
        s2 == Validate(s1, FALSE, f.only_install)
        s3 == InterleavedLoop(s2, f.only_install, 1)
        s4 == SetUnconfiguredInstall(s3, f.only_install)
    IN  FinishConfiguration(s4, f.only_install)

\* faulty variant: validate() is called after the install loop
InstallValidatesLate(st, f) ==
    LET s1 == PrepareExecution(st, f, TRUE, f.only_install)
        s2 == ForwardLoop(s1, "install", 1)
        s3 == Validate(s2, FALSE, f.only_install)
        s4 == IF f.only_install THEN s3 ELSE ForwardLoop(s3, "configure", 1)
        s5 == SetUnconfiguredInstall(s4, f.only_install)
    IN  FinishConfiguration(s5, f.only_install)

\* install
Install(st, f) ==
    LET s1 == PrepareExecution(st, f, TRUE, f.only_install)
        s2 == Validate(s1, FALSE, f.only_install)
        s3 == ForwardLoop(s2, "install", 1)
        s4 == IF f.only_install THEN s3 ELSE ForwardLoop(s3, "configure", 1)
        s5 == SetUnconfiguredInstall(s4, f.only_install)
    IN  FinishConfiguration(s5, f.only_install)

\* faulty variant: the installed marker is looked for only after validate()
ConfigureChecksLate(st, f) ==
    LET passed == [f EXCEPT !.join_cluster = FALSE, !.database_ip = FALSE,
                            !.postgres_password = FALSE]
        s1 == PrepareExecution(st, passed, TRUE, FALSE)
        s2 == Validate(s1, TRUE, FALSE)
        s3 == ValidateManagerPrepared(s2, "configure")
        s4 == IF f.clean_db THEN ForwardLoop(s3, "stop", 1) ELSE s3
        s5 == ForwardLoop(s4, "configure", 1)
        s6 == SetUnconfiguredInstall(s5, FALSE)
    IN  FinishConfiguration(s6, FALSE)

\* configure: join_cluster, database_ip and postgres_password are not
\* handed to _prepare_execution
Configure(st, f) ==
    LET passed == [f EXCEPT !.join_cluster = FALSE, !.database_ip = FALSE,
                            !.postgres_password = FALSE]
        s1 == PrepareExecution(st, passed, TRUE, FALSE)
        s2 == ValidateManagerPrepared(s1, "configure")
        s3 == Validate(s2, TRUE, FALSE)
        s4 == IF f.clean_db THEN ForwardLoop(s3, "stop", 1) ELSE s3
        s5 == ForwardLoop(s4, "configure", 1)
        s6 == SetUnconfiguredInstall(s5, FALSE)
    IN  FinishConfiguration(s6, FALSE)

\* faulty variant: the loop of remove over components, not reversed(components)
RECURSIVE RemoveLoopFrom(_, _, _)
RemoveLoopFrom(st, should_stop, i) ==
    IF Failed(st) \/ i > Len(st.components) THEN st
    ELSE LET s1 == IF should_stop /\ ~st.components[i].skip_installation
                   THEN Call(st, "stop", i) ELSE st
         IN  RemoveLoopFrom(Call(s1, "remove", i), should_stop, i + 1)

RemoveLoopForward(st, should_stop, i) == RemoveLoopFrom(st, should_stop, 1)

\* faulty variant: the loop of remove with remove() called before stop()
RECURSIVE RemoveLoopStopLast(_, _, _)
RemoveLoopStopLast(st, should_stop, i) ==
    IF Failed(st) \/ i < 1 THEN st
    ELSE LET s1 == Call(st, "remove", i)
             s2 == IF should_stop /\ ~st.components[i].skip_installation
                   THEN Call(s1, "stop", i) ELSE s1
         IN  RemoveLoopStopLast(s2, should_stop, i - 1)

\* the loop of remove, over reversed(components), from the i-th object down
RECURSIVE RemoveLoop(_, _, _)
RemoveLoop(st, should_stop, i) ==
    IF Failed(st) \/ i < 1 THEN st
    ELSE LET s1 == IF should_stop /\ ~st.components[i].skip_installation
                   THEN Call(st, "stop", i) ELSE st
         IN  RemoveLoop(Call(s1, "remove", i), should_stop, i - 1)

\* faulty variant: remove stops the components whatever the configured marker
RemoveStoppingAlways(st, f) ==
    LET s1 == PrepareExecution(st, NoFlags, FALSE, FALSE)
        s2 == ValidateForce(s1, f.force)
        s3 == RemoveLoop(s2, TRUE, Len(s2.components))
        s4 == IF ~Failed(s3) /\ IsManagerInstalled(s3)
              THEN MarkerOp(s3, "rm_installed") ELSE s3
    IN  IF ~Failed(s4) /\ IsManagerConfigured(s4)
        THEN MarkerOp(s4, "rm_configured") ELSE s4

\* remove
Remove(st, f) ==
    LET s1 == PrepareExecution(st, NoFlags, FALSE, FALSE)
        s2 == ValidateForce(s1, f.force)
        s3 == RemoveLoop(s2, IsManagerConfigured(s2), Len(s2.components))
        s4 == IF ~Failed(s3) /\ IsManagerInstalled(s3)
              THEN MarkerOp(s3, "rm_installed") ELSE s3
    IN  IF ~Failed(s4) /\ IsManagerConfigured(s4)
        THEN MarkerOp(s4, "rm_configured") ELSE s4

\* start
Start(st) ==
    LET s1 == PrepareExecution(st, NoFlags, FALSE, FALSE)
        s2 == ValidateManagerPrepared(s1, "start")
    IN  ForwardLoop(s2, "start", 1)

\* stop
Stop(st, f) ==
    LET s1 == PrepareExecution(st, NoFlags, FALSE, FALSE)
        s2 == ValidateManagerPrepared(s1, "stop")
        s3 == ValidateForce(s2, f.force)
    IN  ForwardLoop(s3, "stop", 1)

\* restart: stop() and start() are the commands themselves, each with its
\* own _prepare_execution
Restart(st, f) ==
    LET s1 == PrepareExecution(st, NoFlags, FALSE, FALSE)
        s2 == ValidateManagerPrepared(s1, "restart")
        s3 == ValidateForce(s2, f.force)
    IN  Start(Stop(s3, f))

\* ------------------------------------------------------------ environment
Components == UNION {Range(SERVICE_COMPONENTS[s]) : s \in Services}

\* every list of at most n names of S
SeqsUpTo(S, n) == UNION {[1..k -> S] : k \in 0..n}

\* the skip_installation settings a config file may carry
SkipChoices ==
    {{}, {"rabbitmq"}, {"manager"}, {"postgresql_server", "restservice"}}

UserConfigs ==
    {UserConfig(s, k) : s \in SeqsUpTo(Services, MaxServices), k \in SkipChoices}

\* --clean-db, --admin-password, --join-cluster, --database-ip and
\* --postgres-password as given to validate, install and configure
InstallArgs ==
    {[NoFlags EXCEPT !.clean_db = c, !.admin_password = a] :
        c \in BOOLEAN, a \in BOOLEAN}
    \cup {[NoFlags EXCEPT !.admin_password = TRUE, !.join_cluster = TRUE,
                          !.database_ip = TRUE, !.postgres_password = TRUE],
          [NoFlags EXCEPT !.database_ip = TRUE]}

\* the faults a command can meet
FaultsOf(cmd) ==
    {f \in Faults :
        \/ f.kind \in {"none", "config_unreadable", "config_readonly",
                       "config_missing", "call"}
        \/ /\ f.kind \in {"inputs", "deps", "soft"}
           /\ cmd \in {"validate", "install", "configure"}}
    \ {f \in Faults : f.kind = "call" /\ cmd = "validate"}

NoInstall == [ran |-> FALSE, complete |-> FALSE, names |-> <<>>,
              services |-> <<>>, skip |-> {}]

\* the names of the components on which `op` was called, in call order
CalledOn(st, op) ==
    LET calls == SelectSeq(st.log, LAMBDA e : e.op = op)
    IN  [i \in 1..Len(calls) |-> st.components[calls[i].c].name]

\* the process writes its effects: the marker files and the config file
Commit(st) ==
    /\ run' = st
    /\ installed' = st.installed
    /\ configured' = st.configured
    /\ userConfig' = st.file

Init ==
    /\ installed = FALSE
    /\ configured = FALSE
    /\ userConfig \in UserConfigs
    /\ run = Idle
    /\ lastInstall = NoInstall

RunValidate ==
    /\ run.cmd = "idle"
    /\ \E f \in InstallArgs, fault \in FaultsOf("validate") :
          Commit(ValidateCommand(NewRun("validate", f, fault), f))
    /\ UNCHANGED lastInstall

\* every outcome an `install` process can have from the current state,
\* given the flag settings and the faults to choose from
InstallRunsWith(args, faults) ==
    {Install(NewRun("install", fl, fault), fl) :
        fl \in {[f EXCEPT !.only_install = only] :
                    f \in args, only \in BOOLEAN},
        fault \in faults}

InstallRuns == InstallRunsWith(InstallArgs, FaultsOf("install"))

RunInstall ==
    /\ run.cmd = "idle"
    /\ \E st \in InstallRuns : Commit(st)
    /\ UNCHANGED lastInstall

RunConfigure ==
    /\ run.cmd = "idle"
    /\ \E c \in BOOLEAN, a \in BOOLEAN, fault \in FaultsOf("configure") :
          LET f == [NoFlags EXCEPT !.clean_db = c, !.admin_password = a]
          IN  Commit(Configure(NewRun("configure", f, fault), f))
    /\ UNCHANGED lastInstall

RunRemove ==
    /\ run.cmd = "idle"
    /\ \E force \in BOOLEAN, fault \in FaultsOf("remove") :
          LET f == [NoFlags EXCEPT !.force = force]
          IN  Commit(Remove(NewRun("remove", f, fault), f))
    /\ UNCHANGED lastInstall

RunStart ==
    /\ run.cmd = "idle"
    /\ \E fault \in FaultsOf("start") :
          Commit(Start(NewRun("start", NoFlags, fault)))
    /\ UNCHANGED lastInstall

RunStop ==
    /\ run.cmd = "idle"
    /\ \E force \in BOOLEAN, fault \in FaultsOf("stop") :
          LET f == [NoFlags EXCEPT !.force = force]
          IN  Commit(Stop(NewRun("stop", f, fault), f))
    /\ UNCHANGED lastInstall

RunRestart ==
    /\ run.cmd = "idle"
    /\ \E force \in BOOLEAN, fault \in FaultsOf("restart") :
          LET f == [NoFlags EXCEPT !.force = force]
          IN  Commit(Restart(NewRun("restart", f, fault), f))
    /\ UNCHANGED lastInstall

\* the process ends; the files stay
Exit ==
    /\ run.cmd # "idle"
    /\ run' = Idle
    /\ UNCHANGED <<installed, configured, userConfig, lastInstall>>

Next ==
    \/ RunValidate
    \/ RunInstall
    \/ RunConfigure
    \/ RunRemove
    \/ RunStart
    \/ RunStop
    \/ RunRestart
    \/ Exit

Spec == Init /\ [][Next]_vars

\* ------------------------------------------------- install, then teardown
\* The same host with the most recent `install` run kept on record: the
\* components install() was called on, whether the run completed, and the
\* configuration it ran with.
\* Teardown looks at the lifecycle calls only: the flags that change the
\* resolved list and the faults that cut the install loop short are drawn.
TeardownInstallRuns ==
    InstallRunsWith(
        {f \in InstallArgs : ~f.clean_db /\ (f.admin_password => f.join_cluster)},
        {f \in Faults : f.kind \in {"none", "call"}})

RunInstallRecorded ==
    /\ run.cmd = "idle"
    /\ \E st \in TeardownInstallRuns :
          /\ Commit(st)
          /\ lastInstall' =
                [ran |-> TRUE, complete |-> ~Failed(st),
                 names |-> CalledOn(st, "install"),
                 services |-> st.config.services_to_install,
                 skip |-> st.config.skip]

NextTeardown ==
    \/ RunInstallRecorded
    \/ RunRemove
    \/ Exit

SpecTeardown == Init /\ [][NextTeardown]_vars

\* ------------------------------------------------------- the resolver alone
\* _create_component_objects applied to every services_to_install list of
\* at most MaxResolveLen names, known or not
InitResolve ==
    /\ installed = FALSE
    /\ configured = FALSE
    /\ userConfig \in
          {UserConfig(s, k) :
              s \in SeqsUpTo(Services \cup {UNKNOWN_SERVICE}, MaxResolveLen),
              k \in {{}, {"rabbitmq"}}}
    /\ run = Idle
    /\ lastInstall = NoInstall

Resolve ==
    /\ run.cmd = "idle"
    /\ run' = CreateComponentObjects(
                  LoadConfig(NewRun("resolve", NoFlags, NoFault)))
    /\ UNCHANGED <<installed, configured, userConfig, lastInstall>>

NextResolve == Resolve

SpecResolve == InitResolve /\ [][NextResolve]_vars

\* the names of the component objects of a run, in list order
ComponentNames(st) == [i \in 1..Len(st.components) |-> st.components[i].name]

Count(seq, x) == Cardinality({i \in 1..Len(seq) : seq[i] = x})

RECURSIVE Repeat(_, _)
Repeat(seq, k) == IF k = 0 THEN <<>> ELSE seq \o Repeat(seq, k - 1)

\* the reorderings of a list
Orderings(seq) ==
    {[i \in 1..Len(seq) |-> seq[p[i]]] :
        p \in {q \in [1..Len(seq) -> 1..Len(seq)] :
                  \A i, j \in 1..Len(seq) : q[i] = q[j] => i = j}}

Resolved == run.cmd = "resolve" /\ ~Failed(run)

\* C1: the resolved component list goes service by service in
\* SERVICE_INSTALLATION_ORDER (all of an earlier service's components before
\* a later one's, each service's components in declared order, once per time
\* the service is requested), and every reordering of the same request
\* resolves to the same list.
C1_ResolveOrdered ==
    Resolved =>
        LET req == run.config.services_to_install
        IN  /\ ComponentNames(run) =
                  Flatten([i \in 1..Len(SERVICE_INSTALLATION_ORDER) |->
                      Repeat(SERVICE_COMPONENTS[SERVICE_INSTALLATION_ORDER[i]],
                             Count(req, SERVICE_INSTALLATION_ORDER[i]))])
            /\ \A other \in Orderings(req) :
                  GetComponentsList(other) = ComponentNames(run)

\* C1 witness: a request listed against the installation order is resolved
\* into installation order
C1_Witness ==
    /\ Resolved
    /\ run.config.services_to_install = <<MANAGER_SERVICE, DATABASE_SERVICE>>
    /\ ComponentNames(run) = <<"postgresql_server", "manager", "restservice">>

\* C2 (as claimed): no component occurs twice in the resolved list, also
\* when a service is listed twice.
C2_NoDuplicates ==
    Resolved =>
        \A i, j \in 1..Len(run.components) :
            run.components[i].name = run.components[j].name => i = j

\* ------------------------------------------------------ lifecycle ordering
\* the lifecycle calls of a run, in call order
LifecycleLog(st) == SelectSeq(st.log, LAMBDA e : e.op \in LIFECYCLE)

\* the ops recorded in a run's log
Ops(st) == {st.log[k].op : k \in 1..Len(st.log)}

Unskipped(st) ==
    {i \in 1..Len(st.components) : ~st.components[i].skip_installation}

HasCall(st, op, i) == \E k \in 1..Len(st.log) : st.log[k] = [op |-> op, c |-> i]

\* C3: an `install` run calls only install() and configure(), only on
\* unskipped components, each loop in resolved order, and no configure()
\* before install() has been called on every unskipped component; a run that
\* completes has called install() on every unskipped component and, unless
\* --only-install, configure() on every one of them; with --only-install no
\* configure() is called at all.
C3_InstallThenConfigure ==
    run.cmd = "install" =>
        LET L == LifecycleLog(run)
        IN  /\ \A k \in 1..Len(L) :
                  /\ L[k].op \in {"install", "configure"}
                  /\ L[k].c \in Unskipped(run)
            /\ \A k, l \in 1..Len(L) :
                  k < l => \/ L[k].op = "install" /\ L[l].op = "configure"
                           \/ L[k].op = L[l].op /\ L[k].c < L[l].c
            /\ \A k \in 1..Len(L) :
                  L[k].op = "configure" =>
                      \A i \in Unskipped(run) : HasCall(run, "install", i)
            /\ run.flags.only_install => "configure" \notin Ops(run)
            /\ ~Failed(run) =>
                  \A i \in Unskipped(run) :
                      /\ HasCall(run, "install", i)
                      /\ ~run.flags.only_install => HasCall(run, "configure", i)

\* C3 witness: a completed install-and-configure run over three components,
\* one of them skipped
C3_Witness ==
    /\ run.cmd = "install" /\ ~Failed(run) /\ ~run.flags.only_install
    /\ Len(run.components) = 3
    /\ Cardinality(Unskipped(run)) = 2
    /\ Len(LifecycleLog(run)) = 4

\* Whether the `remove` run on record ran with the configuration of the
\* most recent `install` run, and that run called install() to the end.
RemovedAfterInstall ==
    /\ run.cmd = "remove" /\ ~Failed(run)
    /\ lastInstall.ran /\ lastInstall.complete
    /\ run.config.services_to_install = lastInstall.services
    /\ run.config.skip = lastInstall.skip

\* C4 (as claimed): the components remove() is called on are exactly the
\* reverse of the components the most recent install run called install()
\* on, skip_installation flags or not.
C4_RemoveReversesInstall ==
    RemovedAfterInstall =>
        CalledOn(run, "remove") = Reverse(lastInstall.names)

\* C4 (amended): remove() is called on every resolved component, skipped or
\* not, in reverse resolved order; the install sequence reversed is that
\* sequence without the skipped components, and so equals it exactly when
\* no resolved component has skip_installation set.
C4_RemoveReversesResolved ==
    RemovedAfterInstall =>
        /\ CalledOn(run, "remove") = Reverse(ComponentNames(run))
        /\ Reverse(lastInstall.names) =
              SelectSeq(CalledOn(run, "remove"),
                        LAMBDA n : n \notin run.config.skip)
        /\ Unskipped(run) = 1..Len(run.components) =>
              CalledOn(run, "remove") = Reverse(lastInstall.names)

\* C4 witness: a completed teardown of three components after a completed
\* install of two of them (the third is skipped)
C4_Witness ==
    /\ RemovedAfterInstall
    /\ Len(run.components) = 3
    /\ Len(lastInstall.names) = 2
    /\ Len(CalledOn(run, "remove")) = 3

\* C5: in a `remove` run the stop() and remove() calls on a component later
\* in resolved order all come before those on an earlier one, and a
\* component's stop() comes before its own remove().
C5_RemoveReverseOrder ==
    run.cmd = "remove" =>
        LET L == LifecycleLog(run)
        IN  /\ \A k \in 1..Len(L) : L[k].op \in {"stop", "remove"}
            /\ \A k, l \in 1..Len(L) :
                  /\ L[k].c > L[l].c => k < l
                  /\ (L[k].c = L[l].c /\ L[k].op = "stop" /\ L[l].op = "remove")
                        => k < l

\* C5 witness: a completed teardown of a configured manager that stopped
\* and removed three components
C5_Witness ==
    /\ run.cmd = "remove" /\ ~Failed(run) /\ run.configured0
    /\ Len(run.components) = 3
    /\ Len(LifecycleLog(run)) = 6

\* ------------------------------------------------------------ precondition gates
\* validate_config_access let the run through (it raises before any command
\* reaches its own checks)
ConfigAccessible(st) ==
    ~(st.error = "ValidationError" /\ st.fix = "config_access")

MarkersUntouched(st) ==
    /\ st.installed = st.installed0
    /\ st.configured = st.configured0
    /\ Ops(st) \cap {"touch_installed", "touch_configured",
                     "rm_installed", "rm_configured"} = {}

\* C6: a remove, stop or restart run without --force fails, calls no
\* component's stop(), start() or remove() and leaves both marker files as
\* they were; the failure is a BootstrapError (in a run that got past the
\* config file access check, which comes first in every command).
C6_ForceRequired ==
    (run.cmd \in {"remove", "stop", "restart"} /\ ~run.flags.force) =>
        /\ Failed(run)
        /\ ConfigAccessible(run) => run.error = "BootstrapError"
        /\ Ops(run) \cap {"stop", "start", "remove"} = {}
        /\ MarkersUntouched(run)

\* C6 witness: `stop` without --force on an installed, configured manager
\* with two components is turned down for the missing flag
C6_Witness ==
    /\ run.cmd = "stop" /\ ~run.flags.force
    /\ run.installed0 /\ run.configured0
    /\ Len(run.components) = 2
    /\ run.error = "BootstrapError" /\ run.fix = "force"

\* C7: a start, stop or restart run that begins without the installed
\* marker fails and calls no component's start() or stop(); the failure is
\* a BootstrapError that names `install` as the command to run first (in a
\* run that got past the config file access check).
C7_StartNeedsInstall ==
    (run.cmd \in {"start", "stop", "restart"} /\ ~run.installed0) =>
        /\ Failed(run)
        /\ ConfigAccessible(run) =>
              run.error = "BootstrapError" /\ run.fix = "install"
        /\ Ops(run) \cap {"start", "stop"} = {}

\* C7 witness: `restart --force` on a host that was never installed is
\* told to run install first
C7_Witness ==
    /\ run.cmd = "restart" /\ run.flags.force /\ ~run.installed0
    /\ Len(run.components) = 3
    /\ run.error = "BootstrapError" /\ run.fix = "install"

\* C8: a `configure` run that begins without the installed marker fails
\* before validate() is entered and before any stop() or configure() call,
\* creates no configured marker and does not write the config file; the
\* failure is a BootstrapError (in a run that got past the config file
\* access check).
C8_ConfigureNeedsInstall ==
    (run.cmd = "configure" /\ ~run.installed0) =>
        /\ Failed(run)
        /\ ConfigAccessible(run) => run.error = "BootstrapError"
        /\ Ops(run) \cap {"validate", "validate_dependencies", "stop",
                          "configure", "dump_config"} = {}
        /\ MarkersUntouched(run)

\* C8 witness: `configure --clean-db` on a host that was never installed is
\* told to run install first, with three components resolved and none called
C8_Witness ==
    /\ run.cmd = "configure" /\ run.flags.clean_db /\ ~run.installed0
    /\ Len(run.components) = 3
    /\ run.error = "BootstrapError" /\ run.fix = "install"
    /\ LifecycleLog(run) = <<>>

\* C9: the markers after a run that completed: install leaves both markers
\* present; install --only-install leaves the installed marker present and
\* the configured marker as it was; configure leaves the configured marker
\* present; remove --force leaves neither.
C9_MarkerPostStates ==
    ~Failed(run) =>
        /\ (run.cmd = "install" /\ ~run.flags.only_install) =>
              run.installed /\ run.configured
        /\ (run.cmd = "install" /\ run.flags.only_install) =>
              run.installed /\ run.configured = run.configured0
        /\ run.cmd = "configure" => run.configured
        /\ (run.cmd = "remove" /\ run.flags.force) =>
              ~run.installed /\ ~run.configured
        /\ run.cmd # "idle" =>
              installed = run.installed /\ configured = run.configured

\* C9 witness: a completed first `install --only-install` has created the
\* installed marker and no configured marker
C9_Witness ==
    /\ run.cmd = "install" /\ run.flags.only_install /\ ~Failed(run)
    /\ ~run.installed0 /\ installed /\ ~configured
    /\ Len(run.components) >= 2

\* C10: when a component's lifecycle call raises, it is the last lifecycle
\* call of the run, no marker file is created or removed and the config
\* file is not written.
C10_AbortOnRaise ==
    run.error = "ComponentError" =>
        /\ Len(run.log) > 0
        /\ run.log[Len(run.log)].op \in LIFECYCLE
        /\ Len(LifecycleLog(run)) = run.fault.at
        /\ MarkersUntouched(run)
        /\ "dump_config" \notin Ops(run)

\* C10 witness: the second install() of an install run over three
\* components raises, and the third component is never touched
C10_Witness ==
    /\ run.cmd = "install" /\ run.error = "ComponentError"
    /\ Len(run.components) = 3 /\ Unskipped(run) = 1..3
    /\ Len(LifecycleLog(run)) = 2
    /\ ~installed

\* ------------------------------------------------------- skip_installation
\* positions of the components whose skip_installation flag is set
Skipped(st) == (1..Len(st.components)) \ Unskipped(st)

\* C11: in every command (install, configure with or without --clean-db,
\* start, stop, restart, remove) no install(), configure(), start() or
\* stop() is ever called on a component whose skip_installation flag is
\* set; remove() is the only lifecycle call such a component receives.
C11_SkippedNeverDriven ==
    \A k \in 1..Len(run.log) :
        (run.log[k].op \in LIFECYCLE /\ run.log[k].c \in Skipped(run)) =>
            run.log[k].op = "remove"

\* C11 witness: a completed `remove --force` of a configured manager over
\* three components, one of them skipped: the two others were stopped and
\* removed, the skipped one was removed without a stop()
C11_Witness ==
    /\ run.cmd = "remove" /\ ~Failed(run) /\ run.configured0
    /\ Len(run.components) = 3
    /\ \E i \in Skipped(run) :
          /\ HasCall(run, "remove", i)
          /\ ~HasCall(run, "stop", i)
          /\ \A j \in 1..3 \ {i} :
                HasCall(run, "stop", j) /\ HasCall(run, "remove", j)

\* C12 (as claimed): validate() never calls validate_dependencies() on a
\* component whose skip_installation flag is set.
C12_NoDependencyCheckOnSkipped ==
    \A k \in 1..Len(run.log) :
        run.log[k].op = "validate_dependencies" =>
            run.log[k].c \notin Skipped(run)

\* ------------------------------------------------- validation before calls
\* validate() has returned normally before the k-th log entry, after calling
\* validate_dependencies() on every component of the run
ValidatedBefore(st, k) ==
    \E v \in 1..(k - 1) :
        /\ st.log[v].op = "validate_ok"
        /\ \A i \in 1..Len(st.components) :
              \E d \in 1..(v - 1) :
                  st.log[d] = [op |-> "validate_dependencies", c |-> i]

\* C13: in every `install` and `configure` run, each install(), configure()
\* and stop() call comes after validate() has returned without raising in
\* that run, every component's validate_dependencies() included.
C13_ValidateBeforeCalls ==
    run.cmd \in {"install", "configure"} =>
        \A k \in 1..Len(run.log) :
            run.log[k].op \in {"install", "configure", "stop"} =>
                ValidatedBefore(run, k)

\* C13 witness: a `configure --clean-db` run over three unskipped
\* components reached its stop() calls, after validate() had returned
C13_Witness ==
    /\ run.cmd = "configure" /\ run.flags.clean_db
    /\ Len(run.components) = 3 /\ Unskipped(run) = 1..3
    /\ \E k \in 1..Len(run.log) :
          run.log[k].op = "stop" /\ ValidatedBefore(run, k)

\* ------------------------------------------------------- validate() alone
\* validate() called by a process that holds the component objects of a
\* config, on a host with up to MaxBroken things wrong, with every
\* combination of its two arguments; a caller that catches the
\* ValidationError may have the reported problems repaired and call
\* validate() again in the same process, up to MaxValidateCalls calls.
DefaultServer == PostgresqlServer(TRUE, "config", TRUE)

DefaultClient == PostgresqlClient("localhost", "config", TRUE)

ValidateConfigs ==
    {[UserConfig(<<DATABASE_SERVICE>>, {}) EXCEPT
          !.postgresql_server = PostgresqlServer(remote, password, ssl),
          !.skip_validations = skip] :
        remote \in BOOLEAN, password \in {"", "config"}, ssl \in BOOLEAN,
        skip \in BOOLEAN}
    \cup
    {[UserConfig(<<MANAGER_SERVICE>>, {}) EXCEPT
          !.postgresql_client = PostgresqlClient(host, password, ssl),
          !.skip_validations = skip] :
        host \in {"localhost", "remote"}, password \in {"", "config"},
        ssl \in BOOLEAN, skip \in BOOLEAN}
    \cup
    {[UserConfig(<<DATABASE_SERVICE, MANAGER_SERVICE>>, {}) EXCEPT
          !.active_manager_ip = active, !.skip_validations = skip] :
        active \in BOOLEAN, skip \in BOOLEAN}

\* the hosts with at most MaxBroken things wrong for a process with n
\* component objects
ValidateHosts(n) ==
    {h \in [broken : {b \in SUBSET CONDITIONS : Cardinality(b) <= MaxBroken},
            deps : SUBSET (1..n)] :
        Cardinality(h.broken) + Cardinality(h.deps) <= MaxBroken}

ValidateArgs == [skip_validations : BOOLEAN, only_install : BOOLEAN]

InitValidate ==
    /\ installed = FALSE
    /\ configured = FALSE
    /\ userConfig \in ValidateConfigs
    /\ run = Idle
    /\ lastInstall = NoInstall

\* the process starts, builds its component objects and calls validate()
CallValidate ==
    /\ run.cmd = "idle"
    /\ \E a \in ValidateArgs :
         LET p == CreateComponentObjects(LoadConfig(
                      NewProcess("validate()", NoFlags, NoFault, SoundHost,
                                 userConfig, FALSE, FALSE)))
         IN  \E h \in ValidateHosts(Len(p.components)) :
                 run' = Validate([p EXCEPT !.host = h],
                                 a.skip_validations, a.only_install)
    /\ UNCHANGED <<installed, configured, userConfig, lastInstall>>

\* the caller has caught the ValidationError; everything validate() can
\* object to is put right on the host and in the process's config
Repair ==
    /\ run.cmd = "validate()" /\ Failed(run)
    /\ run' = [run EXCEPT !.host = SoundHost,
                          !.config.postgresql_server = DefaultServer,
                          !.config.postgresql_client = DefaultClient,
                          !.error = "none", !.fix = "none",
                          !.message = <<>>, !.log = <<>>]
    /\ UNCHANGED <<installed, configured, userConfig, lastInstall>>

\* the same process calls validate() again
CallValidateAgain ==
    /\ run.cmd = "validate()" /\ ~Failed(run)
    /\ run.nvalidate < MaxValidateCalls
    /\ \E a \in ValidateArgs :
          run' = Validate([run EXCEPT !.log = <<>>],
                          a.skip_validations, a.only_install)
    /\ UNCHANGED <<installed, configured, userConfig, lastInstall>>

NextValidate == CallValidate \/ Repair \/ CallValidateAgain

SpecValidate == InitValidate /\ [][NextValidate]_vars

\* ------------------------------------------------------ validation claims
\* a validate() call of the process has just ended, normally or not
ValidateRan(st) == st.cmd = "validate()" /\ st.log # <<>>

\* the list as a set
Problems(seq) == {seq[k] : k \in 1..Len(seq)}

InputsMissing(st) == st.host.broken \cap INPUT_CONDITIONS # {}

\* neither the config nor the argument asks to skip the soft validations
SoftValidationsAsked(st) ==
    ~st.config.skip_validations /\ ~st.args.skip_validations

\* the positions of the process's components whose validate_dependencies()
\* raises
BrokenDependencies(st) == st.host.deps \cap (1..Len(st.components))

\* the call got past the hard validations
HardValidationsPass(st) ==
    /\ st.args.only_install \/ ~InputsMissing(st)
    /\ BrokenDependencies(st) = {}

RUNTIME_CHECKS ==
    {"_validate_ip", "_validate_active_manager_access",
     "_validate_python_version", "_validate_sufficient_memory",
     "_validate_postgres_inputs", "_validate_external_postgres_ssl_enabled",
     "_validate_postgres_ssl_certificates_provided", "_validate_cert_inputs"}

HOST_CHECKS ==
    {"_validate_supported_distros", "_validate_openssl_version",
     "_validate_user_has_sudo_permissions", "_validate_sufficient_disk_space"}

\* the soft problems a full validate() of this host and config has to
\* report, each under the name its check gives it
SoftProblems(st) ==
    (st.host.broken \cap ACCUMULATED_CONDITIONS)
    \cup (IF PostgresInputsRejected(st)
          THEN {"_validate_postgres_inputs"} ELSE {})
    \cup (IF ExternalPostgresSslDisabled(st)
          THEN {"_validate_external_postgres_ssl_enabled"} ELSE {})
    \cup (IF PostgresSslCertificatesMissing(st)
          THEN {"_validate_postgres_ssl_certificates_provided"} ELSE {})
    \cup (IF Broken(st, "cert_inputs") THEN {"_validate_cert_inputs"} ELSE {})

\* C14 (as claimed): _errors is empty when validate() is entered, also on a
\* later call in the same process; the aggregated error of a call names only
\* problems found during that call; and a call whose checks all pass does
\* not raise.
C14_AccumulatorStartsEmpty ==
    ValidateRan(run) =>
        /\ run.errors0 = <<>>
        /\ run.fix = "aggregate" =>
              Problems(run.message) \subseteq run.host.broken
        /\ (run.host = SoundHost /\ SoftProblems(run) = {}) => ~Failed(run)

\* C15 (as claimed): a first validate() call that runs the soft validations
\* (not skipped, not only_install, hard validations passed) on a host and
\* config with some soft problems runs every runtime and host check and
\* raises one ValidationError that names every one of the problems.
C15_AllSoftProblemsReported ==
    (/\ ValidateRan(run) /\ run.nvalidate = 1
     /\ SoftValidationsAsked(run) /\ ~run.args.only_install
     /\ HardValidationsPass(run)
     /\ SoftProblems(run) # {}) =>
        /\ run.error = "ValidationError"
        /\ Problems(run.message) = SoftProblems(run)
        /\ HOST_CHECKS \subseteq Ops(run)
        /\ (RUNTIME_CHECKS \ {"_validate_active_manager_access"})
               \subseteq Ops(run)

\* the positions of the components whose validate_dependencies() was called
DependencyChecks(st) ==
    {st.log[k].c : k \in {j \in 1..Len(st.log) :
                             st.log[j].op = "validate_dependencies"}}

\* the positions _validate_dependencies gets to: all of them, or up to the
\* first component whose hook raises
DependenciesReached(st) ==
    IF BrokenDependencies(st) = {} THEN 1..Len(st.components)
    ELSE 1..(CHOOSE i \in BrokenDependencies(st) :
                \A j \in BrokenDependencies(st) : i <= j)

\* C16: when a hard validation fails, validate() raises there and then. A
\* missing private_ip or public_ip (validated unless only_install) raises
\* from _validate_inputs, naming the first missing input, before any
\* validate_dependencies() and before any soft check; a component whose
\* validate_dependencies() raises ends the call after the hooks of the
\* components before it, with no later hook and no soft check run. In both
\* cases nothing is added to _errors.
C16_HardFailureRaisesAtOnce ==
    ValidateRan(run) =>
        /\ (~run.args.only_install /\ InputsMissing(run)) =>
              /\ run.error = "ValidationError" /\ run.fix = "inputs"
              /\ run.message = <<IF Broken(run, "private_ip")
                                 THEN "private_ip" ELSE "public_ip">>
              /\ run.log[Len(run.log)].op = "_validate_inputs"
              /\ Ops(run) \cap ({"validate_dependencies"}
                                   \cup RUNTIME_CHECKS \cup HOST_CHECKS) = {}
              /\ run.errors = run.errors0
        /\ (/\ run.args.only_install \/ ~InputsMissing(run)
            /\ BrokenDependencies(run) # {}) =>
              /\ run.error = "ValidationError" /\ run.fix = "dependencies"
              /\ run.log[Len(run.log)].op = "validate_dependencies"
              /\ DependencyChecks(run) = DependenciesReached(run)
              /\ Ops(run) \cap (RUNTIME_CHECKS \cup HOST_CHECKS) = {}
              /\ run.errors = run.errors0

\* C16 witness: on a host with the wrong Python, the second of three
\* components fails its dependency check: the third is not asked, no soft
\* check has run and _errors is empty
C16_Witness ==
    /\ ValidateRan(run) /\ SoftValidationsAsked(run)
    /\ Len(run.components) = 3
    /\ run.host = [broken |-> {"python_version"}, deps |-> {2}]
    /\ run.fix = "dependencies"
    /\ DependencyChecks(run) = {1, 2}
    /\ run.errors = <<>>

\* C17 (as claimed): with only_install set validate() still validates the
\* required inputs, so a missing private_ip or public_ip fails the call, and
\* still calls every component's validate_dependencies().
C17_OnlyInstallValidatesInputs ==
    (ValidateRan(run) /\ run.args.only_install) =>
        /\ "_validate_inputs" \in Ops(run)
        /\ InputsMissing(run) => run.fix = "inputs"
        /\ DependencyChecks(run) \subseteq DependenciesReached(run)

\* C18: when config validations.skip_validations or the skip_validations
\* argument is set (and `configure` always sets the argument), validate()
\* runs none of the runtime and host checks and leaves _errors as it found
\* it; the hard validations run as they do without the flag (the inputs
\* unless only_install, then the validate_dependencies() hooks) and
\* validate() returns normally exactly when they pass.
C18_SkipFlagSkipsOnlySoftChecks ==
    /\ (run.cmd = "configure" /\ "validate" \in Ops(run)) =>
          run.args.skip_validations
    /\ ("validate" \in Ops(run) /\ ~SoftValidationsAsked(run)) =>
          /\ Ops(run) \cap (RUNTIME_CHECKS \cup HOST_CHECKS) = {}
          /\ run.errors = run.errors0
          /\ ~run.args.only_install => "_validate_inputs" \in Ops(run)
          /\ (run.args.only_install \/ ~InputsMissing(run)) =>
                DependencyChecks(run) = DependenciesReached(run)
          /\ "validate_ok" \in Ops(run) <=> HardValidationsPass(run)
          /\ ~HardValidationsPass(run) => run.error = "ValidationError"

\* C18 witness: with skip_validations set in the config alone, validate()
\* of a two-component process returns normally on a host without sudo and
\* with too little disk space, having validated inputs and dependencies
C18_Witness ==
    /\ ValidateRan(run)
    /\ run.config.skip_validations /\ ~run.args.skip_validations
    /\ ~run.args.only_install
    /\ run.host = [broken |-> {"sudo", "disk_space"}, deps |-> {}]
    /\ Len(run.components) = 2 /\ DependencyChecks(run) = {1, 2}
    /\ "_validate_inputs" \in Ops(run)
    /\ ~Failed(run) /\ run.errors = <<>>

\* C19 (as claimed): for a database-only install with
\* enable_remote_connections set and no postgres_password,
\* _validate_postgres_inputs records its finding in _errors and returns, so
\* the checks after it run.
C19_PostgresInputsAccumulated ==
    (/\ ValidateRan(run) /\ run.nvalidate = 1
     /\ SoftValidationsAsked(run) /\ ~run.args.only_install
     /\ HardValidationsPass(run)
     /\ ServicesCoexistenceAssertion(run, DATABASE_SERVICE, MANAGER_SERVICE)
     /\ run.config.postgresql_server.enable_remote_connections
     /\ run.config.postgresql_server.postgres_password = "") =>
        /\ "_validate_postgres_inputs" \in Problems(run.errors)
        /\ run.fix # "_validate_postgres_inputs"
        /\ HOST_CHECKS \subseteq Ops(run)

\* C20 (as claimed): when the database service is installed without the
\* manager service and the soft validations run, validate() fails unless
\* postgresql_server has ssl_enabled and a postgres_password, whatever
\* enable_remote_connections is.
C20_DatabaseOnlyNeedsSslAndPassword ==
    (/\ ValidateRan(run)
     /\ SoftValidationsAsked(run) /\ ~run.args.only_install
     /\ ServicesCoexistenceAssertion(run, DATABASE_SERVICE, MANAGER_SERVICE)
     /\ ~(/\ run.config.postgresql_server.ssl_enabled
          /\ run.config.postgresql_server.postgres_password # "")) =>
        Failed(run)

\* C21 (as claimed): when the manager service is installed without the
\* database service, the postgresql_client host is not local and the soft
\* validations run, validate() fails unless postgresql_client has
\* ssl_enabled and a postgres_password.
C21_RemoteDatabaseNeedsSslAndPassword ==
    (/\ ValidateRan(run)
     /\ SoftValidationsAsked(run) /\ ~run.args.only_install
     /\ ServicesCoexistenceAssertion(run, MANAGER_SERVICE, DATABASE_SERVICE)
     /\ run.config.postgresql_client.host # "localhost"
     /\ ~(/\ run.config.postgresql_client.ssl_enabled
          /\ run.config.postgresql_client.postgres_password # "")) =>
        Failed(run)

\* ----------------------------------------------------- check_certificates
\* validations.check_certificates on one group of ssl_inputs. `paths` says
\* which of cert_path, key_path, ca_path and key_password the config sets,
\* `files` what openssl finds at each path ("ok", "missing": no such file,
\* "invalid": the file does not pass its check), `match` whether key and
\* cert have the same modulus and `signed` whether the CA verifies the cert.
FILE_STATES == {"ok", "missing", "invalid"}

CertificateInputs ==
    [paths : [cert : BOOLEAN, key : BOOLEAN, ca : BOOLEAN,
              password : BOOLEAN],
     files : [cert : FILE_STATES, key : FILE_STATES, ca : FILE_STATES],
     match : BOOLEAN, signed : BOOLEAN, require_non_ca_certs : BOOLEAN]

\* the call has not ended yet
Checking(inputs) ==
    [cmd |-> "check_certificates", inputs |-> inputs,
     error |-> "none", message |-> "none", named |-> {}]

\* raise kind(message): `named` holds the paths the message names
RaiseFrom(c, kind, message, named) ==
    [c EXCEPT !.error = kind, !.message = message, !.named = named]

\* validations._check_ssl_file
CheckSslFile(c, file) ==
    IF c.error # "none" THEN c
    ELSE IF c.inputs.files[file] = "missing"
         THEN RaiseFrom(c, "ValidationError", "does_not_exist", {file})
         ELSE IF c.inputs.files[file] = "invalid"
              THEN RaiseFrom(c, "ValidationError", "invalid", {file})
              ELSE c

\* the `elif cert_filename and key_filename:` branch of check_certificates:
\* with a password, `key_filename += [...]` adds a list to a str
CheckPair(c) ==
    LET c1 == CheckSslFile(CheckSslFile(c, "key"), "cert")
    IN  IF c1.error # "none" THEN c1
        ELSE IF c.inputs.paths.password
             THEN RaiseFrom(c1, "TypeError", "str_and_list", {})
             ELSE IF ~c.inputs.match
                  THEN RaiseFrom(c1, "ValidationError", "does_not_match",
                                 {"key", "cert"})
                  ELSE c1

\* the CA part of check_certificates
CheckCa(c) ==
    IF c.error # "none" \/ ~c.inputs.paths.ca THEN c
    ELSE LET c1 == CheckSslFile(c, "ca")
         IN  IF c1.error = "none" /\ c.inputs.paths.cert /\ ~c.inputs.signed
             THEN RaiseFrom(c1, "ValidationError", "not_signed",
                            {"cert", "ca"})
             ELSE c1

\* validations.check_certificates
CheckCertificates(inputs) ==
    LET p == inputs.paths
        c == Checking(inputs)
        c1 == IF ~p.cert /\ ~p.key /\ inputs.require_non_ca_certs
              THEN IF p.password \/ p.ca
                   THEN RaiseFrom(c, "ValidationError", "both_must_be_provided",
                                  {})
                   ELSE c
              ELSE IF p.cert /\ p.key
                   THEN CheckPair(c)
                   ELSE IF p.cert \/ p.key
                        THEN RaiseFrom(c, "ValidationError",
                                       "either_both_or_neither", {})
                        ELSE c
    IN  CheckCa(c1)

InitCertificates ==
    /\ installed = FALSE
    /\ configured = FALSE
    /\ userConfig = UserConfig(<<>>, {})
    /\ run = Idle
    /\ lastInstall = NoInstall

CallCheckCertificates ==
    /\ run.cmd = "idle"
    /\ \E inputs \in CertificateInputs : run' = CheckCertificates(inputs)
    /\ UNCHANGED <<installed, configured, userConfig, lastInstall>>

NextCertificates == CallCheckCertificates

SpecCertificates == InitCertificates /\ [][NextCertificates]_vars

\* C22 (as claimed): when cert_path and key_path are both set, both files
\* pass their own checks and the moduli differ, check_certificates raises a
\* ValidationError that names the key file and the cert file, with and
\* without a key_password.
C22_MismatchNamesBothFiles ==
    (/\ run.cmd = "check_certificates"
     /\ run.inputs.paths.cert /\ run.inputs.paths.key
     /\ run.inputs.files.cert = "ok" /\ run.inputs.files.key = "ok"
     /\ ~run.inputs.match) =>
        /\ run.error = "ValidationError"
        /\ {"key", "cert"} \subseteq run.named

\* ------------------------------------------- RabbitMQ._possibly_join_cluster
\* max_attempts and delay (seconds) of the loop that waits for the join
max_attempts == 10

delay == 3

\* config[RABBITMQ]['nodename'] as _possibly_set_nodename left it
NODENAME == "rabbit@this"

\* config[RABBITMQ]['join_cluster']: not set, a bare host or a node name
JOIN_CLUSTER_VALUES == {"", "target", "rabbit@target"}

\* RabbitMQ._add_missing_nodename_prefix
AddMissingNodenamePrefix(nodename) ==
    IF nodename \in {"target"} THEN "rabbit@target" ELSE nodename

\* the call as it enters the loop: stop_app, reset, join_cluster and
\* start_app are done. `pc` is where the call stands ("loop": at the while
\* test, "sleep": in time.sleep, "returned", "raised"), `listed` the nodes
\* the last cluster_status named, `seen` whether each query so far named
\* both required nodes, `slept` the seconds spent in time.sleep.
Joining(join_cluster) ==
    [cmd |-> "_possibly_join_cluster", join_cluster |-> join_cluster,
     join_node |-> AddMissingNodenamePrefix(join_cluster),
     rabbitmqctl |-> <<"stop_app", "reset", "join_cluster", "start_app">>,
     pc |-> "loop", attempt |-> 0, listed |-> {}, seen |-> <<>>,
     sleeps |-> 0, slept |-> 0, error |-> "none"]

\* `if not join_node: return`
NotJoining ==
    [Joining("") EXCEPT !.rabbitmqctl = <<>>, !.pc = "returned"]

\* faulty variant: the last attempt is followed by one more sleep and the
\* loop ends without raising
AttemptFailedQuietly(j) ==
    [j EXCEPT !.pc = IF j.attempt = max_attempts + 1 THEN "raised"
                     ELSE "sleep"]

\* the branch taken when a required node is missing from the status
AttemptFailed(j) ==
    IF j.attempt = max_attempts
    THEN [j EXCEPT !.pc = "raised", !.error = "ClusteringError"]
    ELSE [j EXCEPT !.pc = "sleep"]

\* one pass of the loop body up to its sleep: attempt += 1, cluster_status,
\* then the test of the two required nodes against the output
QueryClusterStatus(j, listed) ==
    LET j1 == [j EXCEPT !.attempt = @ + 1, !.listed = listed,
                        !.rabbitmqctl = Append(@, "cluster_status"),
                        !.seen = Append(@, {j.join_node, NODENAME}
                                               \subseteq listed)]
    IN  IF {j.join_node, NODENAME} \subseteq listed
        THEN [j1 EXCEPT !.pc = "returned"]
        ELSE AttemptFailed(j1)

\* time.sleep(delay); continue
SleepDelay(j) ==
    [j EXCEPT !.pc = "loop", !.sleeps = @ + 1, !.slept = @ + delay]

InitJoinCluster ==
    /\ installed = FALSE
    /\ configured = FALSE
    /\ userConfig = UserConfig(<<QUEUE_SERVICE>>, {})
    /\ run = Idle
    /\ lastInstall = NoInstall

EnterPossiblyJoinCluster ==
    /\ run.cmd = "idle"
    /\ \E v \in JOIN_CLUSTER_VALUES :
          run' = IF v = "" THEN NotJoining ELSE Joining(v)
    /\ UNCHANGED <<installed, configured, userConfig, lastInstall>>

\* while attempt != max_attempts: ...
Attempt ==
    /\ run.cmd = "_possibly_join_cluster" /\ run.pc = "loop"
    /\ run.attempt # max_attempts
    /\ \E listed \in SUBSET {run.join_node, NODENAME} :
          run' = QueryClusterStatus(run, listed)
    /\ UNCHANGED <<installed, configured, userConfig, lastInstall>>

Sleep ==
    /\ run.cmd = "_possibly_join_cluster" /\ run.pc = "sleep"
    /\ run' = SleepDelay(run)
    /\ UNCHANGED <<installed, configured, userConfig, lastInstall>>

NextJoinCluster == EnterPossiblyJoinCluster \/ Attempt \/ Sleep

SpecJoinCluster == InitJoinCluster /\ [][NextJoinCluster]_vars

\* how many times cluster_status was asked
Queries(j) ==
    Cardinality({k \in 1..Len(j.rabbitmqctl) :
                    j.rabbitmqctl[k] = "cluster_status"})

\* C23: with join_cluster set, the call ends in ClusteringError exactly when
\* max_attempts (10) cluster_status queries in a row missed a required node,
\* after exactly 10 queries and 9 sleeps of 3 seconds; it returns without
\* raising exactly when a query names both nodes, which is the first to do
\* so, on attempt k in 1..10 after exactly k queries and k - 1 sleeps; no
\* query is made after either.
C23_JoinRetryBudget ==
    (run.cmd = "_possibly_join_cluster" /\ run.join_cluster # "") =>
        LET n == Len(run.seen)
        IN  /\ Queries(run) = n /\ run.attempt = n /\ n <= max_attempts
            /\ \A k \in 1..(n - 1) : ~run.seen[k]
            /\ run.slept = delay * run.sleeps
            /\ run.pc = "raised" <=>
                  (n = max_attempts /\ ~run.seen[n])
            /\ run.pc = "raised" =>
                  /\ run.error = "ClusteringError"
                  /\ run.sleeps = max_attempts - 1
            /\ run.pc = "returned" <=> (n >= 1 /\ run.seen[n])
            /\ run.pc = "returned" =>
                  run.error = "none" /\ run.sleeps = n - 1
            /\ run.pc = "sleep" => run.sleeps = n - 1
            /\ run.pc = "loop" => run.sleeps = n

\* C23 witness: the tenth query still names this node only and the call
\* raises ClusteringError after 27 seconds of sleep
C23_Witness ==
    /\ run.cmd = "_possibly_join_cluster" /\ run.join_cluster = "target"
    /\ run.error = "ClusteringError"
    /\ Queries(run) = 10 /\ run.sleeps = 9 /\ run.slept = 27
    /\ run.listed = {NODENAME}

\* ------------------------------------------------------ config file access
COMMANDS ==
    {"validate", "install", "configure", "remove", "start", "stop", "restart"}

\* the user config file exists and the command may not use it: it cannot be
\* read, or the command is install or configure and it cannot be written
ConfigRefused(st) ==
    \/ st.fault.kind = "config_unreadable"
    \/ st.fault.kind = "config_readonly" /\ st.cmd \in {"install", "configure"}

\* nothing but the access check has happened in the run
StoppedAtAccessCheck(st) ==
    /\ st.log = <<>> /\ st.components = <<>>
    /\ st.config = st.file
    /\ MarkersUntouched(st)

DumpsLast(st) ==
    /\ Len(st.log) >= 1
    /\ st.log[Len(st.log)].op = "dump_config"
    /\ \A k \in 1..(Len(st.log) - 1) : st.log[k].op # "dump_config"
    /\ st.file = st.config

\* C25 (as claimed): every command run that completes rewrites the config
\* file as its last step, and a run that fails never rewrites it.
C25_EveryCommandRewritesConfig ==
    run.cmd \in COMMANDS =>
        /\ ~Failed(run) => DumpsLast(run)
        /\ Failed(run) => "dump_config" \notin Ops(run)

\* C25 (amended): an install or configure run that completes rewrites the
\* config file as its last step; a validate, start, stop, restart or remove
\* run never rewrites it, and neither does a run that fails.
C25_InstallAndConfigureRewriteConfig ==
    run.cmd \in COMMANDS =>
        /\ (~Failed(run) /\ run.cmd \in {"install", "configure"}) =>
              DumpsLast(run)
        /\ (Failed(run) \/ run.cmd \notin {"install", "configure"}) =>
              "dump_config" \notin Ops(run)

\* C25 witness: a completed configure over three components ends with the
\* dump, which writes the derived unconfigured_install value to the file
C25_Witness ==
    /\ run.cmd = "configure" /\ ~Failed(run)
    /\ Len(run.components) = 3
    /\ DumpsLast(run)
    /\ run.file.unconfigured_install = "false"
    /\ userConfig = run.file

\* ------------------------------------------------------ restart
\* the names of the components on which `op` was called, in call order
NamesCalled(st, op) ==
    LET calls == SelectSeq(st.log, LAMBDA e : e.op = op)
    IN  [k \in 1..Len(calls) |-> st.components[calls[k].c].name]

\* the unskipped names of the resolved list of the run's config
UnskippedNames(st) ==
    SelectSeq(GetComponentsList(st.config.services_to_install),
              LAMBDA n : n \notin st.config.skip)

\* C26: a restart run that completes has constructed each resolved component
\* once, has called stop() once on each unskipped component and then start()
\* once on each unskipped component, every stop() before every start().
C26_RestartConstructsOnce ==
    (run.cmd = "restart" /\ ~Failed(run)) =>
        /\ Len(run.components) =
              Len(GetComponentsList(run.config.services_to_install))
        /\ NamesCalled(run, "stop") = UnskippedNames(run)
        /\ NamesCalled(run, "start") = UnskippedNames(run)
        /\ \A j, k \in 1..Len(run.log) :
              (run.log[j].op = "stop" /\ run.log[k].op = "start") => j < k

\* ------------------------------------------------------ component start()
\* The start loop of the `start` command, one helper call at a step, over
\* the components whose start() is in the source.  What the service does
\* after systemd.start is the environment's choice at each check.
\* main.start, after its precondition checks: `for component in components`
StartLoop(components) ==
    [cmd |-> "start_loop", components |-> components, i |-> 1, pc |-> "loop",
     checks |-> <<>>, returned |-> {}, error |-> "none"]

\* an exception leaves start() and the loop
RaisedInStart(s, kind) == [s EXCEPT !.error = kind, !.pc = "raised"]

Observed(s, check, ok) ==
    [s EXCEPT !.checks = Append(@, [c |-> s.i, check |-> check, ok |-> ok])]

\* component.start() has returned: the loop goes on to the next component
ReturnFromStart(s) ==
    [s EXCEPT !.returned = @ \cup {s.i}, !.i = @ + 1, !.pc = "loop"]

\* systemd.verify_alive: raises when the service is not running
VerifyAliveIn(s, alive) ==
    LET s1 == Observed(s, "verify_alive", alive)
    IN  IF ~alive THEN RaisedInStart(s1, "ValidationError")
        ELSE IF s.components[s.i].name = "rabbitmq"
             THEN [s1 EXCEPT !.pc = "status"]
             ELSE ReturnFromStart(s1)

\* result = self._rabbitmqctl(['status']); if result.returncode != 0: raise
RabbitmqctlStatus(s, returncode) ==
    LET s1 == Observed(s, "status", returncode = 0)
    IN  IF returncode # 0 THEN RaisedInStart(s1, "ValidationError")
        ELSE [s1 EXCEPT !.pc = "port"]

\* faulty variant: the answer of is_port_open is dropped
PortCheckDropped(s, open) ==
    ReturnFromStart(Observed(s, "is_port_open", open))

\* if not is_port_open(SECURE_PORT, host='127.0.0.1'): raise NetworkError
\* (SECURE_PORT is 5671)
PortCheck(s, open) ==
    LET s1 == Observed(s, "is_port_open", open)
    IN  IF ~open THEN RaisedInStart(s1, "NetworkError")
        ELSE ReturnFromStart(s1)

\* the component lists a config resolves to, with their skip flags
StartComponents ==
    {[i \in 1..Len(GetComponentsList(c.services_to_install)) |->
         [name |-> GetComponentsList(c.services_to_install)[i],
          skip_installation |->
              GetComponentsList(c.services_to_install)[i] \in c.skip]] :
        c \in {u \in UserConfigs : ~ResolveRaises(u.services_to_install)}}

InitStart ==
    /\ installed = TRUE
    /\ configured = TRUE
    /\ userConfig = UserConfig(<<DATABASE_SERVICE, QUEUE_SERVICE>>, {})
    /\ run = Idle
    /\ lastInstall = NoInstall

EnterStartLoop ==
    /\ run.cmd = "idle"
    /\ \E components \in StartComponents : run' = StartLoop(components)
    /\ UNCHANGED <<installed, configured, userConfig, lastInstall>>

\* if not component.skip_installation: component.start()
\* (a start() that is not in the source is taken to return)
CallStart ==
    /\ run.cmd = "start_loop" /\ run.pc = "loop"
    /\ run.i <= Len(run.components)
    /\ run' = IF run.components[run.i].skip_installation
              THEN [run EXCEPT !.i = @ + 1]
              ELSE IF run.components[run.i].name
                          \in {"postgresql_server", "rabbitmq"}
                   THEN [run EXCEPT !.pc = "systemd_start"]
                   ELSE ReturnFromStart(run)
    /\ UNCHANGED <<installed, configured, userConfig, lastInstall>>

\* systemd.start(...)
SystemdStart ==
    /\ run.cmd = "start_loop" /\ run.pc = "systemd_start"
    /\ run' = [run EXCEPT !.pc = "verify_alive"]
    /\ UNCHANGED <<installed, configured, userConfig, lastInstall>>

VerifyAlive ==
    /\ run.cmd = "start_loop" /\ run.pc = "verify_alive"
    /\ \E alive \in BOOLEAN : run' = VerifyAliveIn(run, alive)
    /\ UNCHANGED <<installed, configured, userConfig, lastInstall>>

Status ==
    /\ run.cmd = "start_loop" /\ run.pc = "status"
    /\ \E returncode \in {0, 1} : run' = RabbitmqctlStatus(run, returncode)
    /\ UNCHANGED <<installed, configured, userConfig, lastInstall>>

IsPortOpen ==
    /\ run.cmd = "start_loop" /\ run.pc = "port"
    /\ \E open \in BOOLEAN : run' = PortCheck(run, open)
    /\ UNCHANGED <<installed, configured, userConfig, lastInstall>>

\* the loop is over: start() of the orchestrator returns
LeaveStartLoop ==
    /\ run.cmd = "start_loop" /\ run.pc = "loop"
    /\ run.i > Len(run.components)
    /\ run' = [run EXCEPT !.pc = "done"]
    /\ UNCHANGED <<installed, configured, userConfig, lastInstall>>

NextStart ==
    \/ EnterStartLoop \/ CallStart \/ SystemdStart \/ VerifyAlive
    \/ Status \/ IsPortOpen \/ LeaveStartLoop

SpecStart == InitStart /\ [][NextStart]_vars

\* the check `check` was made in the start() of component i and succeeded
Passed(s, i, check) ==
    \E k \in 1..Len(s.checks) :
        s.checks[k] = [c |-> i, check |-> check, ok |-> TRUE]

\* the checks start() of component i makes after starting the service
LivenessChecks(name) ==
    IF name = "rabbitmq" THEN <<"verify_alive", "status", "is_port_open">>
    ELSE IF name = "postgresql_server" THEN <<"verify_alive">>
    ELSE <<>>

\* every start() that has returned passed each of its liveness checks
ReturnedOnlyWhenLive(s) ==
    \A i \in s.returned :
        \A j \in 1..Len(LivenessChecks(s.components[i].name)) :
            Passed(s, i, LivenessChecks(s.components[i].name)[j])

AllInstallArgs ==
    {[NoFlags EXCEPT !.clean_db = c, !.admin_password = a,
                     !.join_cluster = j, !.database_ip = d,
                     !.postgres_password = p] :
        c \in BOOLEAN, a \in BOOLEAN, j \in BOOLEAN, d \in BOOLEAN,
        p \in BOOLEAN}

RunValidateWithFlags ==
    /\ run.cmd = "idle"
    /\ \E f \in AllInstallArgs :
          Commit(ValidateCommand(NewRun("validate", f, NoFault), f))
    /\ UNCHANGED lastInstall

RunInstallWithFlags ==
    /\ run.cmd = "idle"
    /\ \E st \in InstallRunsWith(AllInstallArgs, {NoFault}) : Commit(st)
    /\ UNCHANGED lastInstall

RunConfigureWithFlags ==
    /\ run.cmd = "idle"
    /\ \E f \in AllInstallArgs :
          Commit(Configure(NewRun("configure", f, NoFault), f))
    /\ UNCHANGED lastInstall

NextFlags ==
    \/ RunValidateWithFlags
    \/ RunInstallWithFlags
    \/ RunConfigureWithFlags
    \/ Exit

SpecFlags == Init /\ [][NextFlags]_vars

\* the run handed its flags to _populate_and_validate_config_values
Populates(st) ==
    /\ st.cmd \in {"install", "configure", "validate"}
    /\ ~st.flags.only_install
    /\ "load_config" \in Ops(st)

\* C28: in an install, configure or validate run without --only-install
\* (that got as far as loading the config), config clean_db is true when the
\* run started without the configured marker, whatever --clean-db says, and
\* is the --clean-db flag when the marker was there.
C28_CleanDbForcedUntilConfigured ==
    Populates(run) =>
        /\ ~run.configured0 => run.config.clean_db
        /\ run.configured0 => run.config.clean_db = run.flags.clean_db

\* C28 witness: a first install over three components, without --clean-db,
\* ran with clean_db true, completed and wrote it to the config file
C28_Witness ==
    /\ Populates(run) /\ run.cmd = "install" /\ ~Failed(run)
    /\ ~run.configured0 /\ ~run.flags.clean_db
    /\ run.config.clean_db /\ userConfig.clean_db
    /\ Len(run.components) = 3

\* a process has just run with --admin-password
RanWithAdminPassword ==
    /\ run.cmd = "idle"
    /\ run'.cmd \in {"install", "configure", "validate"}
    /\ run'.flags.admin_password

\* the flag was refused: BootstrapError, the admin password of the config as
\* it was in the file, the file not written, no component constructed or called
AdminPasswordRefused ==
    /\ run'.error = "BootstrapError" /\ run'.fix = "clean_db"
    /\ run'.config.admin_password = userConfig.admin_password
    /\ userConfig' = userConfig
    /\ run'.components = <<>>
    /\ LifecycleLog(run') = <<>>

\* C29 (as claimed): a run given --admin-password while the configured
\* marker exists and --clean-db is not set fails with BootstrapError, leaves
\* the configured admin password as it was and constructs and calls no
\* component; any other run given --admin-password has the supplied value
\* as the admin password of its config.
C29_AdminPasswordNeedsCleanDb ==
    [][RanWithAdminPassword =>
          IF configured /\ ~run'.flags.clean_db
          THEN AdminPasswordRefused
          ELSE run'.config.admin_password = "flag"]_vars

\* C29 (amended): the same for a run without --only-install; an install
\* --only-install run neither checks nor applies the flag: it does not fail
\* for it and the admin password of its config is the one of the file.
C29_AdminPasswordNeedsCleanDbUnlessOnlyInstall ==
    [][RanWithAdminPassword =>
          IF run'.flags.only_install
          THEN /\ run'.error # "BootstrapError"
               /\ run'.config.admin_password = userConfig.admin_password
               /\ userConfig'.admin_password = userConfig.admin_password
          ELSE IF configured /\ ~run'.flags.clean_db
               THEN AdminPasswordRefused
               ELSE run'.config.admin_password = "flag"]_vars

\* C29 witness: `install --admin-password` without --clean-db on a
\* configured host with a three-component config is refused before any
\* component exists
C29_Witness ==
    /\ run.cmd = "install" /\ run.flags.admin_password
    /\ ~run.flags.only_install /\ ~run.flags.clean_db
    /\ run.configured0
    /\ Len(GetComponentsList(run.file.services_to_install)) = 3
    /\ run.error = "BootstrapError" /\ run.fix = "clean_db"
    /\ run.components = <<>>

\* C30: an install or validate run given any of --join-cluster,
\* --database-ip and --postgres-password gets as far as constructing
\* components only if --admin-password, --database-ip and
\* --postgres-password are all given; with any other combination holding
\* one of the three it fails with BootstrapError and constructs no component.
C30_ClusterFlagsTogether ==
    (/\ run.cmd \in {"install", "validate"}
     /\ \/ run.flags.join_cluster
        \/ run.flags.database_ip
        \/ run.flags.postgres_password
     /\ ~(/\ run.flags.admin_password
          /\ run.flags.database_ip
          /\ run.flags.postgres_password)) =>
        /\ run.error = "BootstrapError"
        /\ run.components = <<>>

\* ------------------------------------------------------ unknown service
\* C31: when services_to_install holds a service name the registry tables
\* lack, resolving the component list fails with a ConfigurationError and
\* no component is constructed.
C31_UnknownServiceIsConfigurationError ==
    (/\ run.cmd = "resolve"
     /\ \E i \in 1..Len(run.config.services_to_install) :
           run.config.services_to_install[i] \notin Services) =>
        /\ run.error = "ConfigurationError"
        /\ run.components = <<>>

\* ------------------------------------------------------ postgresql_server
\* PostgresqlServer._configure on a host, run after run, with the config
\* kept between the runs.  A file is a list of lines; a line is its words
\* (what whitespace separates) and whether a newline ends it; a word is a
\* list of pieces, so that text written right after a line that has no
\* newline runs on into that line's last word ('hostssl' is 'host' + 'ssl').
MaxHbaLines == 2
MaxConfigures == 2

Word(piece) == <<piece>>

Line(words) == [words |-> words, nl |-> TRUE]

\* f.write('host all all 0.0.0.0/0 md5\n')
LISTEN_ALL_RULE ==
    Line(<<Word("host"), Word("all"), Word("all"), Word("0.0.0.0/0"),
           Word("md5")>>)

\* f.write('hostssl all all 0.0.0.0/0 md5 clientcert=1'): no newline
HOSTSSL_RULE ==
    [words |-> <<<<"host", "ssl">>, Word("all"), Word("all"),
                 Word("0.0.0.0/0"), Word("md5"), Word("clientcert=1")>>,
     nl |-> FALSE]

PG_HBA_LISTEN_ALL_REGEX_PATTERN == LISTEN_ALL_RULE.words

PG_HBA_HOSTSSL_REGEX_PATTERN == HOSTSSL_RULE.words

IsPrefix(a, b) == Len(a) <= Len(b) /\ SubSeq(b, 1, Len(a)) = a

IsSuffix(a, b) ==
    Len(a) <= Len(b) /\ SubSeq(b, Len(b) - Len(a) + 1, Len(b)) = a

\* '\n'.join(lines): the words of all the lines, one after the other
Joined(lines) == Flatten([i \in 1..Len(lines) |-> lines[i].words])

\* where re.search could match the pattern in the text: the words of the
\* pattern in a row, the first one as the end of a word of the text and
\* the last one as the beginning of one
Matches(pattern, text) ==
    {k \in 1..(Len(text) - Len(pattern) + 1) :
        /\ IsSuffix(pattern[1], text[k])
        /\ \A j \in 2..(Len(pattern) - 1) : text[k + j - 1] = pattern[j]
        /\ IsPrefix(pattern[Len(pattern)], text[k + Len(pattern) - 1])}

\* re.search(pattern, '\n'.join(lines))
Search(pattern, lines) == Matches(pattern, Joined(lines)) # {}

\* line.startswith(('host', 'local'))
StartsWithHostOrLocal(line) ==
    /\ line.words # <<>>
    /\ Head(line.words)[1] \in {"host", "local"}

\* line.replace('ident', 'md5')
ReplaceIdent(line) ==
    [line EXCEPT !.words =
        [i \in 1..Len(line.words) |->
            [j \in 1..Len(line.words[i]) |->
                IF line.words[i][j] = "ident" THEN "md5"
                ELSE line.words[i][j]]]]

\* f.write(line) on a file opened for appending, as readlines() will see it
Write(file, line) ==
    IF file = <<>> \/ file[Len(file)].nl THEN Append(file, line)
    ELSE LET last == file[Len(file)]
             glued == IF last.words = <<>> THEN line.words
                      ELSE IF line.words = <<>> THEN last.words
                      ELSE SubSeq(last.words, 1, Len(last.words) - 1)
                           \o <<last.words[Len(last.words)]
                                \o Head(line.words)>>
                           \o Tail(line.words)
         IN  [file EXCEPT ![Len(file)] = [words |-> glued, nl |-> line.nl]]

\* faulty variant: both rules are appended on every call
WriteNewHbaFileAppending(lines, enable_remote_connections, ssl_enabled) ==
    LET body == [i \in 1..Len(lines) |->
                    IF StartsWithHostOrLocal(lines[i])
                    THEN ReplaceIdent(lines[i]) ELSE lines[i]]
        f1 == IF enable_remote_connections
              THEN Write(body, LISTEN_ALL_RULE) ELSE body
    IN  IF ssl_enabled THEN Write(f1, HOSTSSL_RULE) ELSE f1

\* _write_new_hba_file (ssl_enabled is config[POSTGRESQL_SERVER][SSL_ENABLED])
WriteNewHbaFile(lines, enable_remote_connections, ssl_enabled) ==
    LET body == [i \in 1..Len(lines) |->
                    IF StartsWithHostOrLocal(lines[i])
                    THEN ReplaceIdent(lines[i]) ELSE lines[i]]
        f1 == IF ~Search(PG_HBA_LISTEN_ALL_REGEX_PATTERN, lines)
                 /\ enable_remote_connections
              THEN Write(body, LISTEN_ALL_RULE) ELSE body
    IN  IF ssl_enabled /\ ~Search(PG_HBA_HOSTSSL_REGEX_PATTERN, lines)
        THEN Write(f1, HOSTSSL_RULE) ELSE f1

\* postgresql.conf as initdb leaves it (the lines the code looks for)
PG_CONF_DEFAULT ==
    <<"#listen_addresses = 'localhost'", "#ssl = off", "#ssl_ca_file = ''">>

\* _write_new_pgconfig_file
WriteNewPgconfigFile(lines, ssl_enabled) ==
    [i \in 1..Len(lines) |->
        IF lines[i] = "#listen_addresses = 'localhost'"
        THEN "listen_addresses = 'private_ip'"
        ELSE IF ssl_enabled /\ lines[i] = "#ssl = off" THEN "ssl = on"
        ELSE IF ssl_enabled /\ lines[i] = "#ssl_ca_file = ''"
             THEN "ssl_ca_file = 'root.crt'"
        ELSE lines[i]]

PG_SSL_FILES == {"server.crt", "server.key", "root.crt"}

\* _configure_ssl
ConfigureSsl(h) ==
    IF h.config.ssl_enabled THEN [h EXCEPT !.certs = PG_SSL_FILES] ELSE h

\* _update_configuration
UpdateConfiguration(h, enable_remote_connections) ==
    LET h1 == [h EXCEPT !.hba = WriteNewHbaFile(h.hba,
                                   enable_remote_connections,
                                   h.config.ssl_enabled)]
    IN  IF enable_remote_connections
        THEN ConfigureSsl([h1 EXCEPT !.pgconf =
                 WriteNewPgconfigFile(h1.pgconf, h1.config.ssl_enabled)])
        ELSE h1

\* _update_postgres_password
UpdatePostgresPassword(h) ==
    [h EXCEPT !.db_password = h.config.postgres_password,
              !.updates = Append(@, h.config.postgres_password),
              !.config.postgres_password = "<removed>"]

\* _configure (the service commands around these steps keep no state here)
PostgresqlConfigure(h) ==
    LET h1 == UpdateConfiguration(h, h.config.enable_remote_connections)
        h2 == IF h1.config.postgres_password # ""
              THEN UpdatePostgresPassword(h1) ELSE h1
    IN  [h2 EXCEPT !.n = @ + 1,
                   !.history = Append(@, h2.hba)]

\* the lines a pg_hba.conf is made of here
HBA_LINES ==
    {<<Word("local"), Word("all"), Word("all"), Word("peer")>>,
     <<Word("host"), Word("all"), Word("all"), Word("127.0.0.1/32"),
       Word("ident")>>,
     <<Word("host"), Word("all"), Word("all"), Word("0.0.0.0/0"),
       Word("ident")>>,
     <<Word("#"), Word("ident")>>,
     LISTEN_ALL_RULE.words,
     HOSTSSL_RULE.words}

\* every file of at most n of these lines; only the last line of a file
\* can be without its newline
HbaFiles(n) ==
    UNION {{[i \in 1..k |-> [words |-> ws[i], nl |-> i < k \/ nl]] :
               ws \in [1..k -> HBA_LINES], nl \in BOOLEAN} : k \in 0..n}

PostgresqlHost(hba, remote, ssl, password) ==
    [cmd |-> "postgresql_configure",
     config |-> [enable_remote_connections |-> remote, ssl_enabled |-> ssl,
                 postgres_password |-> password],
     password0 |-> password,
     hba0 |-> hba, hba |-> hba, history |-> <<>>,
     pgconf |-> PG_CONF_DEFAULT, certs |-> {},
     db_password |-> "initdb", updates |-> <<>>, n |-> 0]

InitPostgresql ==
    /\ installed = TRUE
    /\ configured = FALSE
    /\ userConfig = UserConfig(<<DATABASE_SERVICE>>, {})
    /\ run \in {PostgresqlHost(hba, remote, ssl, password) :
                   hba \in HbaFiles(MaxHbaLines), remote \in BOOLEAN,
                   ssl \in BOOLEAN, password \in {"", "secret"}}
    /\ lastInstall = NoInstall

ConfigurePostgresql ==
    /\ run.cmd = "postgresql_configure"
    /\ run.n < MaxConfigures
    /\ run' = PostgresqlConfigure(run)
    /\ UNCHANGED <<installed, configured, userConfig, lastInstall>>

NextPostgresql == ConfigurePostgresql

SpecPostgresql == InitPostgresql /\ [][NextPostgresql]_vars

\* C32: when configure has run at least twice, the first time with a
\* postgres_password the user had set, only the first run invoked the
\* update-password step and the database password is the user's value.
C32_SecondConfigureKeepsPassword ==
    (/\ run.cmd = "postgresql_configure"
     /\ run.n >= 2 /\ run.password0 # "") =>
        /\ run.updates = <<run.password0>>
        /\ run.db_password = run.password0

\* how many rules of a kind a file holds
Rules(pattern, lines) == Cardinality(Matches(pattern, Joined(lines)))

HBA_PATTERNS == {PG_HBA_LISTEN_ALL_REGEX_PATTERN, PG_HBA_HOSTSSL_REGEX_PATTERN}

\* the lines of a file with `ident` read as `md5` where the code replaces it
Rewritten(lines) ==
    [i \in 1..Len(lines) |->
        IF StartsWithHostOrLocal(lines[i])
        THEN ReplaceIdent(lines[i]) ELSE lines[i]]

\* C33 (as claimed): with enable_remote_connections and ssl_enabled fixed,
\* the second rewrite of pg_hba.conf leaves the lines the first one
\* produced, and the result holds at most one `host all all 0.0.0.0/0 md5`
\* rule and at most one `hostssl all all 0.0.0.0/0 md5 clientcert=1` rule,
\* whatever the file held at first.
C33_HbaRewriteIdempotentOneRule ==
    run.cmd = "postgresql_configure" =>
        /\ run.n >= 2 => run.history[2] = run.history[1]
        /\ run.n >= 1 =>
              \A pattern \in HBA_PATTERNS : Rules(pattern, run.hba) <= 1

\* C33 (amended): the second rewrite leaves the lines the first one
\* produced; a rewrite appends a rule only when the file it read had none
\* of that kind, so the result holds at most one rule of a kind when the
\* first file held at most one and no line that turns into one when its
\* `ident` is replaced by `md5`; such a line and the appended rule make two.
C33_HbaRewriteIdempotent ==
    run.cmd = "postgresql_configure" =>
        /\ run.n >= 2 => run.history[2] = run.history[1]
        /\ run.n >= 1 =>
              \A pattern \in HBA_PATTERNS :
                  /\ Rules(pattern, run.hba) <=
                        Rules(pattern, Rewritten(run.hba0)) + 1
                  /\ Rules(pattern, run.hba0) >= 1 =>
                        Rules(pattern, run.hba) =
                            Rules(pattern, Rewritten(run.hba0))
                  /\ (/\ Rules(pattern, run.hba0) <= 1
                      /\ Rules(pattern, Rewritten(run.hba0)) =
                            Rules(pattern, run.hba0)) =>
                        Rules(pattern, run.hba) <= 1

\* C33 witness: a file whose last line, an `ident` rule, has no newline was
\* rewritten twice with remote connections and SSL on: both rules were
\* appended by the first rewrite, and the second changed nothing
C33_Witness ==
    /\ run.cmd = "postgresql_configure" /\ run.n = 2
    /\ run.config.enable_remote_connections /\ run.config.ssl_enabled
    /\ Len(run.hba0) = 2 /\ ~run.hba0[2].nl
    /\ Rules(PG_HBA_LISTEN_ALL_REGEX_PATTERN, run.hba0) = 0
    /\ Rules(PG_HBA_HOSTSSL_REGEX_PATTERN, run.hba0) = 0
    /\ Rules(PG_HBA_LISTEN_ALL_REGEX_PATTERN, run.history[1]) = 1
    /\ Rules(PG_HBA_HOSTSSL_REGEX_PATTERN, run.history[1]) = 1
    /\ run.history[1] # run.hba0
    /\ run.history[2] = run.history[1]

\* SSL is switched on in postgresql.conf and the certificate, key and CA
\* are in the data directory
ServerSslOn(h) ==
    /\ \E i \in 1..Len(h.pgconf) : h.pgconf[i] = "ssl = on"
    /\ h.certs = PG_SSL_FILES

\* C40: after a configure with ssl_enabled true, whatever
\* enable_remote_connections is, postgresql.conf has SSL on and the server
\* certificate, key and CA are in the data directory; and whenever a
\* configure has added the `hostssl ... clientcert=1` rule to pg_hba.conf,
\* the same is true.
C40_SslEnabledMeansSslConfigured ==
    (run.cmd = "postgresql_configure" /\ run.n >= 1) =>
        /\ run.config.ssl_enabled => ServerSslOn(run)
        /\ Rules(PG_HBA_HOSTSSL_REGEX_PATTERN, run.hba) >
              Rules(PG_HBA_HOSTSSL_REGEX_PATTERN, Rewritten(run.hba0)) =>
                 ServerSslOn(run)

\* ------------------------------------------------------ marker files
\* The seven commands on a host where the creation or removal of a marker
\* file can fail too.
MarkerFaults ==
    {NoFault, [kind |-> "call", at |-> 1]}
    \cup {f \in Faults : f.kind = "marker"}

RunValidateOnMarkers ==
    /\ run.cmd = "idle"
    /\ Commit(ValidateCommand(NewRun("validate", NoFlags, NoFault), NoFlags))
    /\ UNCHANGED lastInstall

RunInstallOnMarkers ==
    /\ run.cmd = "idle"
    /\ \E st \in InstallRunsWith({NoFlags}, MarkerFaults) : Commit(st)
    /\ UNCHANGED lastInstall

RunConfigureOnMarkers ==
    /\ run.cmd = "idle"
    /\ \E c \in BOOLEAN, fault \in MarkerFaults :
          LET f == [NoFlags EXCEPT !.clean_db = c]
          IN  Commit(Configure(NewRun("configure", f, fault), f))
    /\ UNCHANGED lastInstall

RunRemoveOnMarkers ==
    /\ run.cmd = "idle"
    /\ \E force \in BOOLEAN, fault \in MarkerFaults :
          LET f == [NoFlags EXCEPT !.force = force]
          IN  Commit(Remove(NewRun("remove", f, fault), f))
    /\ UNCHANGED lastInstall

RunStartOnMarkers ==
    /\ run.cmd = "idle"
    /\ \E fault \in MarkerFaults :
          Commit(Start(NewRun("start", NoFlags, fault)))
    /\ UNCHANGED lastInstall

RunStopOnMarkers ==
    /\ run.cmd = "idle"
    /\ \E fault \in MarkerFaults :
          LET f == [NoFlags EXCEPT !.force = TRUE]
          IN  Commit(Stop(NewRun("stop", f, fault), f))
    /\ UNCHANGED lastInstall

RunRestartOnMarkers ==
    /\ run.cmd = "idle"
    /\ \E fault \in MarkerFaults :
          LET f == [NoFlags EXCEPT !.force = TRUE]
          IN  Commit(Restart(NewRun("restart", f, fault), f))
    /\ UNCHANGED lastInstall

NextMarkers ==
    \/ RunValidateOnMarkers
    \/ RunInstallOnMarkers
    \/ RunConfigureOnMarkers
    \/ RunRemoveOnMarkers
    \/ RunStartOnMarkers
    \/ RunStopOnMarkers
    \/ RunRestartOnMarkers
    \/ Exit

SpecMarkers == Init /\ [][NextMarkers]_vars

\* C34: in every state any sequence of runs reaches, runs that fail partway
\* included, the configured marker exists only if the installed marker
\* exists.
C34_ConfiguredOnlyIfInstalled == configured => installed

\* C35: the unconfigured_install value of the config file is true only if
\* the configured marker is absent.
C35_UnconfiguredInstallMeansNotConfigured ==
    userConfig.unconfigured_install = "true" => ~configured

\* ------------------------------------------------------ active manager
\* C36: a validate() call with cluster.active_manager_ip set, soft
\* validations not skipped and not only-install fails when port 80 of the
\* active manager is not open.
C36_ClosedActiveManagerPortFails ==
    (/\ ValidateRan(run) /\ run.nvalidate = 1
     /\ run.config.active_manager_ip
     /\ SoftValidationsAsked(run) /\ ~run.args.only_install
     /\ Broken(run, "active_manager_port")) =>
        run.error = "ValidationError"

\* ------------------------------------------------------ configure's flags
\* what `install` (without --only-install) makes of the same flags, config
\* file and markers before it validates anything
InstallPrepared(f) ==
    PrepareExecution(NewRun("install", f, NoFault), f, TRUE, FALSE)

RejectedFlags(st) ==
    st.error = "BootstrapError" /\ st.fix \in {"flags", "clean_db"}

\* C37: a configure run rejects the flags exactly when install with the same
\* flags, config file and markers does, for the same reason, and otherwise
\* has the same postgresql_client settings and the same services_to_install
\* in its config.
C37_ConfigurePopulatesAsInstall ==
    [][(run.cmd = "idle" /\ run'.cmd = "configure") =>
          LET ref == InstallPrepared(run'.flags)
          IN  /\ RejectedFlags(run') = RejectedFlags(ref)
              /\ RejectedFlags(ref) => run'.fix = ref.fix
              /\ run'.config.postgresql_client = ref.config.postgresql_client
              /\ run'.config.services_to_install =
                    ref.config.services_to_install]_vars

\* ------------------------------------------------------ remove, unconfigured
\* C38: a `remove --force` run that starts without the configured marker
\* calls no component's stop(); when it completes it has called remove() on
\* every resolved component, in reverse resolved order, and both markers
\* are absent.
C38_RemoveUnconfiguredSkipsStop ==
    (run.cmd = "remove" /\ run.flags.force /\ ~run.configured0) =>
        /\ "stop" \notin Ops(run)
        /\ ~Failed(run) =>
              /\ CalledOn(run, "remove") = Reverse(ComponentNames(run))
              /\ ComponentNames(run) =
                    GetComponentsList(run.config.services_to_install)
              /\ ~run.installed /\ ~run.configured
              /\ ~installed /\ ~configured

\* C38 witness: a completed `remove --force` of a manager installed with
\* --only-install: three components removed, none stopped, the installed
\* marker gone
C38_Witness ==
    /\ run.cmd = "remove" /\ run.flags.force /\ ~Failed(run)
    /\ run.installed0 /\ ~run.configured0
    /\ Len(run.components) = 3 /\ Unskipped(run) = 1..3
    /\ Len(CalledOn(run, "remove")) = 3
    /\ "rm_installed" \in Ops(run)
    /\ ~installed

\* ----------------------------------------------------------------- sanity
\* components/sanity/sanity.py: run_sanity_check and the authorized_keys file.
\* A file is its lines in order; a line is the pieces of text written onto
\* it and whether a newline ends it (only the last line can lack one).

\* most lines the authorized_keys file starts with
MaxKeyLines == 2

\* most lines other processes append while the check runs
MaxOtherKeys == 1

KeyLine(text) == [text |-> text, nl |-> TRUE]

\* the public key ssh-keygen wrote to <key_path>.pub
SANITY_PUBLIC_KEY == KeyLine(<<"ssh-rsa sanity">>)

OTHER_KEY == KeyLine(<<"ssh-rsa other">>)

KEY_TEXTS == {<<>>, <<"ssh-rsa alice">>, <<"ssh-rsa bob">>}

NoAuthorizedKeys == [exists |-> FALSE, lines |-> <<>>]

\* `echo >> file`
EchoAppend(file) ==
    [exists |-> TRUE,
     lines |-> IF file.lines # <<>> /\ ~file.lines[Len(file.lines)].nl
               THEN [file.lines EXCEPT ![Len(file.lines)].nl = TRUE]
               ELSE Append(file.lines, KeyLine(<<>>))]

\* `cat source >> file` of a one-line source
CatAppend(file, line) ==
    [exists |-> TRUE,
     lines |-> IF file.lines # <<>> /\ ~file.lines[Len(file.lines)].nl
               THEN [file.lines EXCEPT ![Len(file.lines)] =
                        [text |-> @.text \o line.text, nl |-> line.nl]]
               ELSE Append(file.lines, line)]

\* `sed -i '$ d' file`
SedDeleteLastLine(file) ==
    [file EXCEPT !.lines = IF @ = <<>> THEN <<>>
                           ELSE SubSeq(@, 1, Len(@) - 1)]

\* _add_ssh_key_to_authorized
AddSshKeyToAuthorized(file) ==
    IF file.exists
    THEN CatAppend(EchoAppend(file), SANITY_PUBLIC_KEY)
    ELSE [exists |-> TRUE, lines |-> <<SANITY_PUBLIC_KEY>>]

\* the steps of run_sanity_check, _run_sanity and _clean_sanity unfolded
SANITY_STEPS ==
    <<"create_ssh_key", "clean_old_sanity", "upload_blueprint", "deploy_app",
      "install_sanity", "verify_sanity", "clean_sanity", "remove_sanity_ssh">>

StepAfter(pc) ==
    LET i == CHOOSE k \in 1..Len(SANITY_STEPS) : SANITY_STEPS[k] = pc
    IN  IF i = Len(SANITY_STEPS) THEN "done" ELSE SANITY_STEPS[i + 1]

\* the authorized_keys files a host can have: none, or up to n lines, the
\* last one possibly without its newline
AuthorizedKeysFiles(n) ==
    {NoAuthorizedKeys} \cup
    UNION {{[exists |-> TRUE,
             lines |-> [i \in 1..k |-> [text |-> ts[i], nl |-> i < k \/ nl]]] :
               ts \in {t \in [1..k -> KEY_TEXTS] : k > 0 => t[k] # <<>>},
               nl \in BOOLEAN} \cup
           {[exists |-> TRUE, lines |-> [i \in 1..k |-> KeyLine(ts[i])]] :
               ts \in [1..k -> KEY_TEXTS]} :
           k \in 0..n}

SanityHost(keys) ==
    [cmd |-> "sanity", pc |-> "create_ssh_key", error |-> "none",
     at |-> "none", keys0 |-> keys, keys |-> keys, ssh_key |-> FALSE,
     others |-> 0]

InitSanity ==
    /\ installed = TRUE
    /\ configured = FALSE
    /\ userConfig = UserConfig(<<>>, {})
    /\ run \in {SanityHost(keys) : keys \in AuthorizedKeysFiles(MaxKeyLines)}
    /\ lastInstall = NoInstall

\* _create_ssh_key
CreateSshKey ==
    /\ run.cmd = "sanity" /\ run.pc = "create_ssh_key"
    /\ run' = [run EXCEPT !.keys = AddSshKeyToAuthorized(@),
                          !.ssh_key = TRUE,
                          !.pc = StepAfter(run.pc)]
    /\ UNCHANGED <<installed, configured, userConfig, lastInstall>>

\* _run_sanity, _verify_sanity and _clean_sanity: commands against the
\* manager that leave authorized_keys alone
SanityStep ==
    /\ run.cmd = "sanity"
    /\ run.pc \in {"clean_old_sanity", "upload_blueprint", "deploy_app",
                   "install_sanity", "verify_sanity", "clean_sanity"}
    /\ run' = [run EXCEPT !.pc = StepAfter(run.pc)]
    /\ UNCHANGED <<installed, configured, userConfig, lastInstall>>

\* _remove_sanity_ssh
RemoveSanitySsh ==
    /\ run.cmd = "sanity" /\ run.pc = "remove_sanity_ssh"
    /\ run' = [run EXCEPT !.keys = SedDeleteLastLine(@),
                          !.ssh_key = FALSE,
                          !.pc = StepAfter(run.pc)]
    /\ UNCHANGED <<installed, configured, userConfig, lastInstall>>

\* the command a step runs fails: the exception leaves run_sanity_check,
\* which has no handler around its steps
SanityStepRaises ==
    /\ run.cmd = "sanity"
    /\ run.pc \in {SANITY_STEPS[i] : i \in 1..Len(SANITY_STEPS)}
    /\ run' = [run EXCEPT !.error = "ProcessExecutionError",
                          !.at = run.pc, !.pc = "raised"]
    /\ UNCHANGED <<installed, configured, userConfig, lastInstall>>

\* another process appends a key to the user's authorized_keys while the
\* check is running
OtherAppendsKey ==
    /\ run.cmd = "sanity"
    /\ run.pc \in {SANITY_STEPS[i] : i \in 2..Len(SANITY_STEPS)}
    /\ run.others < MaxOtherKeys
    /\ run' = [run EXCEPT !.keys = CatAppend(@, OTHER_KEY),
                          !.others = @ + 1]
    /\ UNCHANGED <<installed, configured, userConfig, lastInstall>>

NextSanity ==
    \/ CreateSshKey
    \/ SanityStep
    \/ RemoveSanitySsh
    \/ SanityStepRaises
    \/ OtherAppendsKey

SpecSanity == InitSanity /\ [][NextSanity]_vars

\* the check has ended, having created its key
SanityTerminated ==
    /\ run.cmd = "sanity"
    /\ run.pc \in {"done", "raised"}
    /\ run.at # "create_ssh_key"

HoldsSanityKey(file) ==
    \E i \in 1..Len(file.lines) : file.lines[i].text = SANITY_PUBLIC_KEY.text

KeepsLines(before, after) ==
    /\ Len(after.lines) >= Len(before.lines)
    /\ \A i \in 1..Len(before.lines) :
          after.lines[i].text = before.lines[i].text

\* C39: when run_sanity_check has ended, by returning or by a step after
\* the key creation raising, authorized_keys no longer holds the sanity
\* public key and still holds every line it held before the check.
C39_SanityKeyRemoved ==
    SanityTerminated =>
        /\ ~HoldsSanityKey(run.keys)
        /\ KeepsLines(run.keys0, run.keys)

====
